---- MODULE Spec2Model ----
(***************************************************************************)
(* Model of the event memory (memory_subsystem.py), of the two capture     *)
(* loops of the orchestrator (main.py) that share it, and of the camera    *)
(* and audio subsystems the loops poll.                                    *)
(*                                                                         *)
(* Spec     : a sequential client calling the MemorySubsystem API in any   *)
(*            order, with a clock that may advance between calls.          *)
(* SpecRead : the read-only methods called on every small store.           *)
(* SpecRun  : MultimodalAssistant.run(): the main (visual) thread and the  *)
(*            audio thread, one step per bytecode-level effect on the      *)
(*            shared store.                                                *)
(* SpecSummary : create_summary on every small buffer, across restarts of  *)
(*            the process.                                                 *)
(* SpecCamera : CameraSubsystem, the keyframe gate called on any frames.   *)
(* SpecAudio : AudioSubsystem, process_audio_stream on any chunks, under   *)
(*            any configured speaker threshold.                            *)
(* SpecQuestion : AudioSubsystem._is_question on transcribed texts.        *)
(* SpecVisual : process_camera_frame, frame after frame.                   *)
(* SpecStop : SpecRun with a main thread that goes through stop().         *)
(* SpecPersist : save_to_file and load_from_file on every small store and  *)
(*            on the documents an earlier session may have left.           *)
(* SpecTick : the per-tick handlers of the two loops, captures failing or  *)
(*            not, each run to its end.                                    *)
(***************************************************************************)
EXTENDS Integers, Sequences, FiniteSets, TLC

VARIABLES
    memory_chunks,        \* MemorySubsystem.memory_chunks: deque(maxlen=MAX_MEMORY_CHUNKS)
    summaries,            \* MemorySubsystem.summaries: list
    last_summary_time,    \* MemorySubsystem.last_summary_time
    session_start_time,   \* MemorySubsystem.session_start_time
    total_interactions,   \* MemorySubsystem.total_interactions
    now,                  \* the value time.time() returns
    file,                 \* the document at config.MEMORY_DB_PATH
    hash_seed,            \* the process's string-hash seed (fixes set iteration order)
    log,                  \* history: every chunk handed to memory_chunks.append since
                          \* the deque was last empty by construction, clear or load
    since_reset,          \* history: clock ticks since construction, the last clear()
                          \* or the last summary created
    ret,                  \* the last API call and the value it returned
    is_running,           \* MultimodalAssistant.is_running
    current_ocr_text,     \* MultimodalAssistant.current_ocr_text
    pcV,                  \* where the main (visual) thread stands in run()
    pcA,                  \* where the audio thread stands in _audio_loop()
    frames,               \* iterations of the main loop begun
    polls,                \* iterations of the audio loop begun
    chunkV,               \* main thread: the chunk built and not yet appended
    chunkA,               \* audio thread: the chunk built and not yet appended
    ocr_result,           \* main thread: ocr_result of process_camera_frame
    question,             \* audio thread: result of audio.process_audio_stream()
    context,              \* audio thread: the context get_context_for_llm builds
    scan,                 \* main thread: the deque iterator of create_summary
    raised,               \* the exception that ended the main loop, "none" if none
    made,                 \* history: chunks built so far, per thread
    log_by,               \* history: who appended log[i], and as their how-manieth
    seen,                 \* history: the contexts the store held while the
                          \* audio thread was reading one
    previous_frame,       \* CameraSubsystem.previous_frame (the reference frame)
    frame_count,          \* CameraSubsystem.frame_count
    keyframe_count,       \* CameraSubsystem.keyframe_count
    last_keyframe_time,   \* CameraSubsystem.last_keyframe_time
    is_recording,         \* AudioSubsystem.is_recording
    user_voiceprint,      \* AudioSubsystem.user_voiceprint
    speech_count,         \* AudioSubsystem.speech_count
    non_user_speech_count, \* AudioSubsystem.non_user_speech_count
    speaker_threshold,    \* config.SPEAKER_ID_THRESHOLD as configured
    vad,                  \* AudioSubsystem.vad: TRUE when the WebRTC VAD exists
    previous_text,        \* OCRSubsystem.previous_text
    stages                \* history: the pipeline stages process_audio_stream
                          \* ran on the last chunk, with their results

memVars == <<memory_chunks, summaries, last_summary_time, session_start_time,
             total_interactions>>
apiVars == <<memory_chunks, summaries, last_summary_time, session_start_time,
             total_interactions, now, file, hash_seed, log, since_reset, ret>>
runVars == <<is_running, current_ocr_text, pcV, pcA, frames, polls, chunkV,
             chunkA, ocr_result, question, context, scan, raised, made,
             log_by, seen>>
camVars == <<previous_frame, frame_count, keyframe_count, last_keyframe_time>>
audVars == <<is_recording, user_voiceprint, speech_count, non_user_speech_count,
             speaker_threshold, vad, stages>>
ocrVars == <<previous_text>>
devVars == <<camVars, audVars, ocrVars>>
vars == <<apiVars, runVars, devVars>>

(***************************************************************************)
(* Sizes.  config.py sets MAX_MEMORY_CHUNKS = 100 and                      *)
(* SUMMARY_INTERVAL_SECONDS = 180; the model runs them scaled down.        *)
(***************************************************************************)
MAX_MEMORY_CHUNKS == 3
SUMMARY_INTERVAL_SECONDS == 2
\* config.py: KEYFRAME_THRESHOLD = 0.85 and SPEAKER_ID_THRESHOLD = 0.75;
\* similarities are counted in hundredths.
KEYFRAME_THRESHOLD == 85
SPEAKER_ID_THRESHOLD == 75
\* get_context_for_llm asks for 5 recent chunks, create_summary keeps the last
\* 5 questions and 3 distinct texts; scaled with the capacity.
CONTEXT_CHUNKS == 2
SUMMARY_QUESTIONS == 2
SUMMARY_TEXTS == 1
\* Bound of the exploration under Spec: appends, summaries and clock ticks
\* since construction (appends and summaries: since the last clear or load).
\* The last unit is kept for a summary or a tick.
MaxWork == MAX_MEMORY_CHUNKS + 2

QuestionTexts == {"q1"}
OcrTexts == {"", "t1"}
AnswerTexts == {"a1"}
Confidences == {90}

HashSeeds == {0, 1}

None == [none |-> TRUE]

Min(a, b) == IF a <= b THEN a ELSE b
Max(a, b) == IF a >= b THEN a ELSE b

(***************************************************************************)
(* Python sequence operations.                                             *)
(***************************************************************************)
\* s[-k:] for k >= 0.  -0 is 0, so s[-0:] is s[0:], the whole list.
\* Mutant of SliceLast: the first k elements.
SliceLastOldest(s, k) == SubSeq(s, 1, IF k <= Len(s) THEN k ELSE Len(s))

SliceLast(s, k) ==
    IF k = 0 THEN s
    ELSE SubSeq(s, Max(1, Len(s) - k + 1), Len(s))

\* s[:k] for k >= 0
SliceFirst(s, k) == SubSeq(s, 1, Min(k, Len(s)))

\* Mutants of DequeAppend: a plain list that never evicts; a deque that
\* discards the newest item instead of the oldest.
DequeAppendUnbounded(d, x) == Append(d, x)

DequeAppendDropNewest(d, x) ==
    IF Len(d) >= MAX_MEMORY_CHUNKS
    THEN Append(SubSeq(d, 1, Len(d) - 1), x)
    ELSE Append(d, x)

\* deque(maxlen=MAX_MEMORY_CHUNKS).append(x): when full, the leftmost item is
\* discarded, then x is added on the right.
DequeAppend(d, x) ==
    IF Len(d) >= MAX_MEMORY_CHUNKS
    THEN Append(Tail(d), x)
    ELSE Append(d, x)

(***************************************************************************)
(* MemoryChunk                                                             *)
(***************************************************************************)
\* MemoryChunk.__init__: `timestamp or time.time()`; callers that pass no
\* timestamp pass 0 here (None and 0 are both falsy).
MemoryChunk(chunk_type, content, timestamp) ==
    [chunk_type |-> chunk_type,
     content    |-> content,
     timestamp  |-> IF timestamp = 0 THEN now ELSE timestamp]

\* time.strftime('%Y-%m-%d %H:%M:%S', ...) keeps whole seconds; the clock of
\* the model is finer, two ticks to the second.
TimeStr(ts) == ts \div 2

\* Mutant of to_dict: the timestamp is written in whole seconds
to_dict_whole_seconds(chunk) ==
    [type      |-> chunk.chunk_type,
     content   |-> chunk.content,
     timestamp |-> 2 * TimeStr(chunk.timestamp),
     time_str  |-> TimeStr(chunk.timestamp)]

\* MemoryChunk.to_dict
to_dict(chunk) ==
    [type      |-> chunk.chunk_type,
     content   |-> chunk.content,
     timestamp |-> chunk.timestamp,
     time_str  |-> TimeStr(chunk.timestamp)]

\* from_dict reads data['type'], data['content'], data['timestamp']; an entry
\* lacking one of them raises KeyError.
WellFormed(data) == {"type", "content", "timestamp"} \subseteq DOMAIN data

\* MemoryChunk.from_dict
from_dict(data) == MemoryChunk(data.type, data.content, data.timestamp)

\* [chunk.to_dict() for chunk in chunks]
DictsOf(chunks) == [i \in 1..Len(chunks) |-> to_dict(chunks[i])]

(***************************************************************************)
(* MemorySubsystem: the chunks the add_* methods construct                 *)
(***************************************************************************)
\* add_keyframe, lines 47-51
KeyframeChunk(frame_data) ==
    MemoryChunk("keyframe",
                [description |-> "Visual keyframe captured",
                 ocr_text    |-> frame_data.ocr_text,
                 confidence  |-> frame_data.confidence], 0)

\* add_question, lines 56-59
QuestionChunk(question_data) ==
    MemoryChunk("question",
                [text       |-> question_data.text,
                 confidence |-> question_data.confidence], 0)

\* add_answer, lines 65-68
AnswerChunk(answer_data) ==
    MemoryChunk("answer",
                [text     |-> answer_data.text,
                 question |-> answer_data.question], 0)

\* add_ocr_event, lines 74-78
OcrChunk(ocr_data) ==
    MemoryChunk("ocr",
                [text       |-> ocr_data.text,
                 confidence |-> ocr_data.confidence,
                 word_count |-> ocr_data.word_count], 0)

(***************************************************************************)
(* MemorySubsystem: summaries                                              *)
(***************************************************************************)
\* Mutant of should_create_summary: strict comparison.
should_create_summary_strict ==
    now - last_summary_time > SUMMARY_INTERVAL_SECONDS

\* should_create_summary
should_create_summary ==
    now - last_summary_time >= SUMMARY_INTERVAL_SECONDS

TextsOf(chunks, chunk_type) ==
    LET sel == SelectSeq(chunks, LAMBDA c : c.chunk_type = chunk_type)
    IN  [i \in 1..Len(sel) |-> sel[i].content.text]

CountOf(chunks, chunk_type) ==
    Len(SelectSeq(chunks, LAMBDA c : c.chunk_type = chunk_type))

Range(s) == {s[i] : i \in 1..Len(s)}

\* The iteration order of a set of strings is fixed by the hash seed of the
\* process: one order per seed.
TextRank(t) == CASE t = "" -> 0 [] t = "t1" -> 1 [] t = "t2" -> 2 [] OTHER -> 3

HashBefore(x, y) ==
    IF hash_seed = 0 THEN TextRank(x) <= TextRank(y)
                     ELSE TextRank(x) >= TextRank(y)

RECURSIVE ListOfSet(_)
ListOfSet(S) ==
    IF S = {} THEN <<>>
    ELSE LET x == CHOOSE x \in S : \A y \in S : HashBefore(x, y)
         IN  <<x>> \o ListOfSet(S \ {x})

\* _generate_summary_text: the clauses, joined by ". " and closed by ".".
\* The text is kept as its sequence of tokens.
SummaryParts(questions, ocr_texts) ==
    LET p1 == IF questions # <<>>
              THEN <<[tok |-> "Received questions", n |-> Len(questions)]>>
              ELSE <<>>
        p2 == IF ocr_texts # <<>>
              THEN <<[tok |-> "Detected unique text segments",
                      n |-> Cardinality(Range(ocr_texts))]>>
              ELSE <<>>
        p  == p1 \o p2
    IN  IF p = <<>> THEN <<[tok |-> "Monitoring session with no significant activity", n |-> 0]>>
        ELSE p

RECURSIVE Join(_)
Join(parts) ==
    IF Len(parts) = 1 THEN <<parts[1]>>
    ELSE <<parts[1], [tok |-> ". ", n |-> 0]>> \o Join(Tail(parts))

generate_summary_text(questions, ocr_texts) ==
    Join(SummaryParts(questions, ocr_texts)) \o <<[tok |-> ".", n |-> 0]>>

\* create_summary, lines 94-122: the summary dict built from a scan of chunks
SummaryOf(chunks) ==
    LET recent_questions == TextsOf(chunks, "question")
        recent_ocr       == TextsOf(chunks, "ocr")
        recent_keyframes == CountOf(chunks, "keyframe")
    IN  [timeframe  |-> [start |-> last_summary_time,
                         end   |-> now,
                         duration_seconds |-> now - last_summary_time],
         statistics |-> [questions_asked    |-> Len(recent_questions),
                         keyframes_captured |-> recent_keyframes,
                         ocr_events         |-> Len(recent_ocr)],
         questions     |-> SliceLast(recent_questions, SUMMARY_QUESTIONS),
         detected_text |-> SliceFirst(ListOfSet(Range(recent_ocr)), SUMMARY_TEXTS),
         summary_text  |-> generate_summary_text(recent_questions, recent_ocr)]

(***************************************************************************)
(* MemorySubsystem: reads                                                  *)
(***************************************************************************)
\* Mutant of get_recent_context: the oldest chunks instead of the newest.
get_recent_context_oldest(max_chunks) ==
    DictsOf(SliceFirst(memory_chunks, max_chunks))

\* get_recent_context
get_recent_context(max_chunks) ==
    DictsOf(SliceLast(memory_chunks, max_chunks))

\* get_latest_summary
get_latest_summary ==
    IF summaries = <<>> THEN None
    ELSE to_dict(summaries[Len(summaries)])

\* get_context_for_llm
get_context_for_llm ==
    [session_duration   |-> now - session_start_time,
     total_interactions |-> total_interactions,
     latest_summary     |-> get_latest_summary,
     recent_events      |-> get_recent_context(CONTEXT_CHUNKS)]

(***************************************************************************)
(* MemorySubsystem: persistence                                            *)
(***************************************************************************)
\* save_to_file, lines 176-181: the document handed to json.dump
SavedDocument ==
    [session_start      |-> session_start_time,
     total_interactions |-> total_interactions,
     memory_chunks      |-> DictsOf(memory_chunks),
     summaries          |-> DictsOf(summaries)]

\* Index of the first entry from_dict fails on, 0 when there is none.
FirstBad(entries) ==
    IF \E i \in 1..Len(entries) : ~WellFormed(entries[i])
    THEN CHOOSE i \in 1..Len(entries) :
            /\ ~WellFormed(entries[i])
            /\ \A j \in 1..(i - 1) : WellFormed(entries[j])
    ELSE 0

\* The loop of lines 201-203 run over entries[1..n] on a cleared deque.
RECURSIVE LoadChunks(_, _)
LoadChunks(entries, n) ==
    IF n = 0 THEN <<>>
    ELSE DequeAppend(LoadChunks(entries, n - 1), from_dict(entries[n]))

\* The loop of lines 207-209 run over entries[1..n] on a cleared list.
LoadSummaries(entries, n) == [i \in 1..n |-> from_dict(entries[i])]

\* Number of entries read before the loop ends or raises.
ReadCount(entries) ==
    IF FirstBad(entries) = 0 THEN Len(entries) ELSE FirstBad(entries) - 1

(***************************************************************************)
(* The API as called by a sequential client (Spec): each call is one step. *)
(***************************************************************************)
FrameData    == [ocr_text : OcrTexts \ {""}, confidence : Confidences]
QuestionData == [text : QuestionTexts, confidence : Confidences]
AnswerData   == [text : AnswerTexts, question : QuestionTexts]
OcrData      == [text : OcrTexts, confidence : Confidences, word_count : {1}]

Returned(op, val) == [op |-> op, val |-> val]

Work == Len(log) + Len(summaries) + (now - 1)

\* memory_chunks.append(chunk), with the history of appends
AppendChunk(chunk) ==
    /\ memory_chunks' = DequeAppend(memory_chunks, chunk)
    /\ log' = Append(log, chunk)

\* add_keyframe
AddKeyframe(frame_data) ==
    /\ Work < MaxWork - 1
    /\ AppendChunk(KeyframeChunk(frame_data))
    /\ ret' = Returned("add_keyframe", None)
    /\ UNCHANGED <<summaries, last_summary_time, session_start_time,
                   total_interactions, now, file, hash_seed, since_reset>>
    /\ UNCHANGED <<runVars, devVars>>

\* Mutant of AddQuestion: the interaction is not counted.
AddQuestionUncounted(question_data) ==
    /\ Work < MaxWork - 1
    /\ AppendChunk(QuestionChunk(question_data))
    /\ ret' = Returned("add_question", None)
    /\ UNCHANGED <<summaries, last_summary_time, session_start_time,
                   total_interactions, now, file, hash_seed, since_reset>>
    /\ UNCHANGED <<runVars, devVars>>

\* add_question
AddQuestion(question_data) ==
    /\ Work < MaxWork - 1
    /\ AppendChunk(QuestionChunk(question_data))
    /\ total_interactions' = total_interactions + 1
    /\ ret' = Returned("add_question", None)
    /\ UNCHANGED <<summaries, last_summary_time, session_start_time,
                   now, file, hash_seed, since_reset>>
    /\ UNCHANGED <<runVars, devVars>>

\* add_answer
AddAnswer(answer_data) ==
    /\ Work < MaxWork - 1
    /\ AppendChunk(AnswerChunk(answer_data))
    /\ ret' = Returned("add_answer", None)
    /\ UNCHANGED <<summaries, last_summary_time, session_start_time,
                   total_interactions, now, file, hash_seed, since_reset>>
    /\ UNCHANGED <<runVars, devVars>>

\* add_ocr_event: nothing is appended for an empty text
AddOcrEvent(ocr_data) ==
    /\ Work < MaxWork - 1
    /\ IF ocr_data.text # ""
       THEN AppendChunk(OcrChunk(ocr_data))
       ELSE UNCHANGED <<memory_chunks, log>>
    /\ ret' = Returned("add_ocr_event", None)
    /\ UNCHANGED <<summaries, last_summary_time, session_start_time,
                   total_interactions, now, file, hash_seed, since_reset>>
    /\ UNCHANGED <<runVars, devVars>>

\* should_create_summary()
ShouldCreateSummary ==
    /\ ret' = Returned("should_create_summary", should_create_summary)
    /\ UNCHANGED <<memVars, now, file, hash_seed, log, since_reset>>
    /\ UNCHANGED <<runVars, devVars>>

\* Mutant of CreateSummary: the summaries are kept in a bounded deque too.
CreateSummaryBounded ==
    /\ Work < MaxWork
    /\ memory_chunks # <<>>
    /\ summaries' = DequeAppend(summaries,
                        MemoryChunk("summary", SummaryOf(memory_chunks), 0))
    /\ last_summary_time' = now
    /\ since_reset' = 0
    /\ ret' = Returned("create_summary", SummaryOf(memory_chunks))
    /\ UNCHANGED <<memory_chunks, session_start_time, total_interactions,
                   now, file, hash_seed, log>>
    /\ UNCHANGED <<runVars, devVars>>

\* Mutant of CreateSummary: the scan covers every chunk appended, evicted
\* ones included.
CreateSummaryOfHistory ==
    /\ Work < MaxWork
    /\ IF memory_chunks = <<>>
       THEN /\ ret' = Returned("create_summary", [empty |-> TRUE])
            /\ UNCHANGED <<summaries, last_summary_time, since_reset>>
       ELSE LET summary == SummaryOf(log)
            IN  /\ summaries' = Append(summaries, MemoryChunk("summary", summary, 0))
                /\ last_summary_time' = now
                /\ since_reset' = 0
                /\ ret' = Returned("create_summary", summary)
    /\ UNCHANGED <<memory_chunks, session_start_time, total_interactions,
                   now, file, hash_seed, log>>
    /\ UNCHANGED <<runVars, devVars>>

\* Mutant of CreateSummary: the scan covers only the chunks stamped since the
\* last summary.
CreateSummaryOfWindow ==
    /\ Work < MaxWork
    /\ IF memory_chunks = <<>>
       THEN /\ ret' = Returned("create_summary", [empty |-> TRUE])
            /\ UNCHANGED <<summaries, last_summary_time, since_reset>>
       ELSE LET InWindow(chunk) == chunk.timestamp >= last_summary_time
                summary == SummaryOf(SelectSeq(memory_chunks, InWindow))
            IN  /\ summaries' = Append(summaries, MemoryChunk("summary", summary, 0))
                /\ last_summary_time' = now
                /\ since_reset' = 0
                /\ ret' = Returned("create_summary", summary)
    /\ UNCHANGED <<memory_chunks, session_start_time, total_interactions,
                   now, file, hash_seed, log>>
    /\ UNCHANGED <<runVars, devVars>>

\* Mutant of CreateSummary: the summary chunk also goes into the buffer.
CreateSummaryIntoBuffer ==
    /\ Work < MaxWork
    /\ IF memory_chunks = <<>>
       THEN /\ ret' = Returned("create_summary", [empty |-> TRUE])
            /\ UNCHANGED <<summaries, last_summary_time, since_reset,
                           memory_chunks>>
       ELSE LET summary == SummaryOf(memory_chunks)
            IN  /\ summaries' = Append(summaries, MemoryChunk("summary", summary, 0))
                /\ memory_chunks' =
                       DequeAppend(memory_chunks, MemoryChunk("summary", summary, 0))
                /\ last_summary_time' = now
                /\ since_reset' = 0
                /\ ret' = Returned("create_summary", summary)
    /\ UNCHANGED <<session_start_time, total_interactions,
                   now, file, hash_seed, log>>
    /\ UNCHANGED <<runVars, devVars>>

\* create_summary(): returns {} and changes nothing on an empty buffer
CreateSummary ==
    /\ Work < MaxWork
    /\ IF memory_chunks = <<>>
       THEN /\ ret' = Returned("create_summary", [empty |-> TRUE])
            /\ UNCHANGED <<summaries, last_summary_time, since_reset>>
       ELSE LET summary == SummaryOf(memory_chunks)
            IN  /\ summaries' = Append(summaries, MemoryChunk("summary", summary, 0))
                /\ last_summary_time' = now
                /\ since_reset' = 0
                /\ ret' = Returned("create_summary", summary)
    /\ UNCHANGED <<memory_chunks, session_start_time, total_interactions,
                   now, file, hash_seed, log>>
    /\ UNCHANGED <<runVars, devVars>>

\* get_recent_context(max_chunks)
GetRecentContext(max_chunks) ==
    /\ ret' = Returned("get_recent_context",
                       [max_chunks |-> max_chunks,
                        events |-> get_recent_context(max_chunks)])
    /\ UNCHANGED <<memVars, now, file, hash_seed, log, since_reset>>
    /\ UNCHANGED <<runVars, devVars>>

\* get_context_for_llm()
GetContextForLlm ==
    /\ ret' = Returned("get_context_for_llm", get_context_for_llm)
    /\ UNCHANGED <<memVars, now, file, hash_seed, log, since_reset>>
    /\ UNCHANGED <<runVars, devVars>>

\* save_to_file(): the open() may fail, which is printed and swallowed
SaveToFile ==
    /\ \/ file' = [kind |-> "doc", data |-> SavedDocument]
       \/ file' = file
    /\ ret' = Returned("save_to_file", None)
    /\ UNCHANGED <<memVars, now, hash_seed, log, since_reset>>
    /\ UNCHANGED <<runVars, devVars>>

\* load_from_file(), f being what open() finds at the path
load_from_file(f) ==
    IF f.kind # "doc"
    THEN \* FileNotFoundError, or json.load raises
         /\ ret' = Returned("load_from_file", FALSE)
         /\ UNCHANGED <<memVars, log>>
    ELSE LET data == f.data
             nc   == ReadCount(data.memory_chunks)
             ns   == ReadCount(data.summaries)
             chunks_ok == nc = Len(data.memory_chunks)
             all_ok    == chunks_ok /\ ns = Len(data.summaries)
         IN  /\ session_start_time' = data.session_start
             /\ total_interactions' = data.total_interactions
             /\ memory_chunks' = LoadChunks(data.memory_chunks, nc)
             /\ log' = [i \in 1..nc |-> from_dict(data.memory_chunks[i])]
             /\ summaries' = IF chunks_ok
                             THEN LoadSummaries(data.summaries, ns)
                             ELSE summaries
             /\ ret' = Returned("load_from_file", all_ok)
             /\ UNCHANGED last_summary_time

LoadFromFile(f) ==
    /\ load_from_file(f)
    /\ UNCHANGED <<now, file, hash_seed, since_reset>>
    /\ UNCHANGED <<runVars, devVars>>

\* clear()
Clear ==
    /\ memory_chunks' = <<>>
    /\ summaries' = <<>>
    /\ last_summary_time' = now
    /\ total_interactions' = 0
    /\ log' = <<>>
    /\ since_reset' = 0
    /\ ret' = Returned("clear", None)
    /\ UNCHANGED <<session_start_time, now, file, hash_seed>>
    /\ UNCHANGED <<runVars, devVars>>

\* time passes between two calls
Tick ==
    /\ Work < MaxWork
    /\ now' = now + 1
    /\ since_reset' = since_reset + 1
    /\ ret' = Returned("tick", None)
    /\ UNCHANGED <<memVars, file, hash_seed, log>>
    /\ UNCHANGED <<runVars, devVars>>

(***************************************************************************)
(* Documents a previous session may have left at MEMORY_DB_PATH.           *)
(***************************************************************************)
SavedOcr(i) ==
    [type |-> "ocr",
     content |-> [text |-> "t1", confidence |-> 90, word_count |-> i],
     timestamp |-> 1, time_str |-> TimeStr(1)]

\* more entries than the capacity
OversizeDocument ==
    [session_start |-> 1, total_interactions |-> 1,
     memory_chunks |-> [i \in 1..(MAX_MEMORY_CHUNKS + 1) |-> SavedOcr(i)],
     summaries |-> <<>>]

\* an entry without 'timestamp' in second place
MalformedDocument ==
    [session_start |-> 1, total_interactions |-> 1,
     memory_chunks |-> <<SavedOcr(1), [type |-> "ocr"], SavedOcr(3)>>,
     summaries |-> <<>>]

InitialFiles ==
    {[kind |-> "missing"],
     [kind |-> "corrupt"],
     [kind |-> "doc", data |-> OversizeDocument],
     [kind |-> "doc", data |-> MalformedDocument]}

\* CameraSubsystem.__init__
CameraIdle ==
    /\ previous_frame = None
    /\ frame_count = 0
    /\ keyframe_count = 0
    /\ last_keyframe_time = 0

\* AudioSubsystem.__init__, the threshold apart
AudioIdle ==
    /\ is_recording = FALSE
    /\ user_voiceprint = None
    /\ speech_count = 0
    /\ non_user_speech_count = 0
    /\ stages = <<>>

\* OCRSubsystem.__init__
OcrIdle == previous_text = ""

\* The subsystems as constructed, with the threshold config.py sets and no
\* WebRTC VAD
DevicesIdle ==
    /\ CameraIdle
    /\ AudioIdle
    /\ OcrIdle
    /\ speaker_threshold = SPEAKER_ID_THRESHOLD
    /\ vad = FALSE

\* MultimodalAssistant.__init__, before run() is called
NotRunning ==
    /\ is_running = FALSE
    /\ current_ocr_text = ""
    /\ pcV = "init"
    /\ pcA = "unstarted"
    /\ frames = 0
    /\ polls = 0
    /\ chunkV = None
    /\ chunkA = None
    /\ ocr_result = None
    /\ question = None
    /\ context = None
    /\ scan = None
    /\ raised = "none"
    /\ made = [visual |-> 0, audio |-> 0]
    /\ log_by = <<>>
    /\ seen = {}

\* MemorySubsystem.__init__
Init ==
    /\ NotRunning
    /\ DevicesIdle
    /\ memory_chunks = <<>>
    /\ summaries = <<>>
    /\ now = 1
    /\ last_summary_time = now
    /\ session_start_time = now
    /\ total_interactions = 0
    /\ file = [kind |-> "missing"]
    /\ hash_seed = 0
    /\ log = <<>>
    /\ since_reset = 0
    /\ ret = Returned("__init__", None)

Next ==
    \/ \E frame_data \in FrameData : AddKeyframe(frame_data)
    \/ \E question_data \in QuestionData : AddQuestion(question_data)
    \/ \E answer_data \in AnswerData : AddAnswer(answer_data)
    \/ \E ocr_data \in OcrData : AddOcrEvent(ocr_data)
    \/ ShouldCreateSummary
    \/ CreateSummary
    \/ \E f \in InitialFiles : LoadFromFile(f)
    \/ Clear
    \/ Tick

Spec == Init /\ [][Next]_vars

(***************************************************************************)
(* Claims checked under Spec                                               *)
(***************************************************************************)
IsPrefix(s, t) == Len(s) <= Len(t) /\ SubSeq(t, 1, Len(s)) = s

LastOf(s, n) == SubSeq(s, Len(s) - n + 1, Len(s))

AppendOps == {"add_keyframe", "add_question", "add_answer", "add_ocr_event"}

\* C1: in every state reachable by add_keyframe, add_question, add_answer,
\* add_ocr_event, create_summary, load_from_file and clear, memory_chunks
\* holds at most MAX_MEMORY_CHUNKS events.
C1_LengthAtMostCapacity == Len(memory_chunks) <= MAX_MEMORY_CHUNKS

\* a full buffer after more appends than the capacity
C1_Witness ==
    /\ Len(log) > MAX_MEMORY_CHUNKS
    /\ Len(memory_chunks) = MAX_MEMORY_CHUNKS
    /\ ret.op \in AppendOps

\* C2: after N appends to an empty store the buffer is the last min(N, C)
\* events appended, in append order; an append at length C removes exactly
\* the oldest event and keeps the others in order.
C2_LastAppendedInOrder ==
    /\ [](memory_chunks = LastOf(log, Min(Len(log), MAX_MEMORY_CHUNKS)))
    /\ [][(/\ ret'.op \in AppendOps
           /\ Len(log') = Len(log) + 1
           /\ Len(memory_chunks) = MAX_MEMORY_CHUNKS)
          => memory_chunks' = Append(Tail(memory_chunks), log'[Len(log')])]_vars

\* N > C appends since the store was empty: the oldest is gone, the newest is last
C2_Witness ==
    /\ Len(log) = MAX_MEMORY_CHUNKS + 1
    /\ memory_chunks = Tail(log)
    /\ memory_chunks[1] # log[1]

\* C6: add_question increases total_interactions by exactly 1; add_keyframe,
\* add_answer, add_ocr_event and create_summary leave it unchanged.
C6_OnlyQuestionsCount ==
    [][/\ ret'.op = "add_question" => total_interactions' = total_interactions + 1
       /\ ret'.op \in {"add_keyframe", "add_answer", "add_ocr_event", "create_summary"}
             => total_interactions' = total_interactions]_vars

\* two questions counted, then another kind of event appended
C6_Witness ==
    /\ total_interactions = 2
    /\ ret.op = "add_answer"
    /\ Len(log) >= 3

\* C9: appends (evicting or not) and summary creations never remove or change
\* an earlier summary; the summaries list is not bounded by the capacity.
C9_SummariesOnlyGrow ==
    [][ret'.op \in AppendOps \cup {"create_summary"}
          => IsPrefix(summaries, summaries')]_vars

\* more summaries than the capacity of the buffer
C9_Witness ==
    /\ Len(summaries) > MAX_MEMORY_CHUNKS
    /\ ret.op = "create_summary"

\* C10: should_create_summary() is true exactly when
\* now - last_summary_time >= SUMMARY_INTERVAL_SECONDS, that is exactly when
\* the clock advanced by at least the interval since construction, the last
\* clear() or the last summary created; false right after those.
C10_TimerThreshold ==
    ret.op = "should_create_summary" =>
        /\ ret.val = (now - last_summary_time >= SUMMARY_INTERVAL_SECONDS)
        /\ ret.val = (since_reset >= SUMMARY_INTERVAL_SECONDS)

\* true at equality, one interval after a summary was created
C10_Witness ==
    /\ ret.op = "should_create_summary"
    /\ ret.val = TRUE
    /\ summaries # <<>>
    /\ now - last_summary_time = SUMMARY_INTERVAL_SECONDS

(***************************************************************************)
(* SpecRead: the read-only methods applied to stores drawn from the states *)
(* the add_* methods and create_summary leave behind.                      *)
(***************************************************************************)
\* the chunks add_* construct, stamped at clock values up to t
ChunksUpTo(t) ==
    {MemoryChunk(c.chunk_type, c.content, ts) :
        c \in {KeyframeChunk(fd) : fd \in FrameData}
              \cup {QuestionChunk(qd) : qd \in QuestionData}
              \cup {AnswerChunk(ad) : ad \in AnswerData}
              \cup {OcrChunk(od) : od \in {d \in OcrData : d.text # ""}},
        ts \in 1..t}

SeqsUpTo(S, n) == UNION {[1..k -> S] : k \in 0..n}

\* buffers within capacity, in creation order
StoresUpTo(t) ==
    {b \in SeqsUpTo(ChunksUpTo(t), MAX_MEMORY_CHUNKS) :
        \A i \in 1..(Len(b) - 1) : b[i].timestamp <= b[i + 1].timestamp}

\* summaries create_summary builds from a one-chunk buffer
SummariesUpTo(t) ==
    {MemoryChunk("summary", SummaryOf(<<c>>), t) :
        c \in {QuestionChunk(qd) : qd \in QuestionData}
              \cup {KeyframeChunk(fd) : fd \in FrameData}}

InitRead ==
    /\ NotRunning
    /\ DevicesIdle
    /\ now = 2
    /\ last_summary_time = 1
    /\ session_start_time = 1
    /\ memory_chunks \in StoresUpTo(now)
    /\ summaries \in SeqsUpTo(SummariesUpTo(now), 2)
    /\ total_interactions \in 0..1
    /\ file = [kind |-> "missing"]
    /\ hash_seed = 0
    /\ log = memory_chunks
    /\ since_reset = now - last_summary_time
    /\ ret = Returned("__init__", None)

NextRead ==
    \/ \E max_chunks \in 0..(MAX_MEMORY_CHUNKS + 1) : GetRecentContext(max_chunks)
    \/ GetContextForLlm

SpecRead == InitRead /\ [][NextRead]_vars

\* C7: for every k >= 0, get_recent_context(k) returns exactly
\* min(k, length) events, the k most recently appended ones, oldest first;
\* k = 0 returns no event.
C7_RecentReturnsLastK ==
    ret.op = "get_recent_context" =>
        ret.val.events =
            DictsOf(LastOf(memory_chunks,
                           Min(ret.val.max_chunks, Len(memory_chunks))))

\* C8: get_context_for_llm returns the current counter, the most recently
\* appended summary (none when there is none) and the last
\* min(CONTEXT_CHUNKS, length) buffered events, oldest first; building it
\* changes neither the buffer, the summaries nor the counter.
C8_ContextContents ==
    /\ [](ret.op = "get_context_for_llm" =>
            /\ ret.val.total_interactions = total_interactions
            /\ ret.val.latest_summary =
                   IF Len(summaries) = 0 THEN None
                   ELSE to_dict(summaries[Len(summaries)])
            /\ ret.val.recent_events =
                   DictsOf(LastOf(memory_chunks,
                                  Min(CONTEXT_CHUNKS, Len(memory_chunks)))))
    /\ [][ret'.op = "get_context_for_llm" =>
            UNCHANGED <<memory_chunks, summaries, total_interactions>>]_vars

\* a context cut from a buffer longer than the window, with two summaries
C8_Witness ==
    /\ ret.op = "get_context_for_llm"
    /\ Len(memory_chunks) > CONTEXT_CHUNKS
    /\ Len(ret.val.recent_events) = CONTEXT_CHUNKS
    /\ Len(summaries) = 2
    /\ summaries[1] # summaries[2]
    /\ ret.val.latest_summary = to_dict(summaries[2])

(***************************************************************************)
(* SpecRun.  MultimodalAssistant.run(): the main thread runs the visual    *)
(* loop and the summary timer, the audio thread runs _audio_loop().  No    *)
(* lock is taken anywhere; the interpreter switches threads between        *)
(* bytecodes, so each step below is one call into the store (deque.append, *)
(* list(deque), a next() of the deque iterator, an attribute read or       *)
(* write) or a stretch of code that touches only thread-local names.       *)
(***************************************************************************)
MaxFrames == 2
MaxPolls == 1
\* long enough for one summary to fall due
MaxTime == SUMMARY_INTERVAL_SECONDS + 1
\* chunks built plus clock ticks: the run is explored up to MaxRunWork of
\* them, one chunk more than the buffer holds
RunWork == made.visual + made.audio + (now - 1)
MaxRunWork == MAX_MEMORY_CHUNKS + 1

visualLocals == <<pcV, frames, chunkV, ocr_result, current_ocr_text, scan, raised>>
audioLocals == <<pcA, polls, chunkA, question, context>>

\* A chunk a thread has built, tagged for the history with its place among
\* the chunks of that thread.
Built(chunk, who) == [chunk |-> chunk, n |-> made[who] + 1]

\* What get_context_for_llm returns when it runs against one state of the store.
ContextOf(chunks, sums, count) ==
    [total_interactions |-> count,
     latest_summary     |-> IF sums = <<>> THEN None ELSE to_dict(sums[Len(sums)]),
     recent_events      |-> DictsOf(SliceLast(chunks, CONTEXT_CHUNKS))]

\* The audio thread has made the first read of a context and not yet the last.
Reading == pcA \in {"ctx_summary", "ctx_recent"}

\* History of the store states a context under construction lived through.
Observe(chunks, sums, count) ==
    seen' = IF Reading THEN seen \cup {ContextOf(chunks, sums, count)} ELSE seen

\* Mutant of ThreadAppend: an append that overwrites the newest entry, as a
\* read-modify-write of the tail that lost a concurrent update would.
ThreadAppendOverwrite(built, who) ==
    /\ memory_chunks' = IF memory_chunks = <<>> THEN <<built.chunk>>
                        ELSE [memory_chunks EXCEPT ![Len(memory_chunks)] = built.chunk]
    /\ log' = Append(log, built.chunk)
    /\ log_by' = Append(log_by, [by |-> who, n |-> built.n])
    /\ scan' = IF pcV = "scan" THEN [scan EXCEPT !.mutated = TRUE] ELSE scan
    /\ Observe(memory_chunks', summaries, total_interactions)

\* memory_chunks.append(built.chunk) by thread who: one C call
ThreadAppend(built, who) ==
    /\ memory_chunks' = DequeAppend(memory_chunks, built.chunk)
    /\ log' = Append(log, built.chunk)
    /\ log_by' = Append(log_by, [by |-> who, n |-> built.n])
    /\ scan' = IF pcV = "scan" THEN [scan EXCEPT !.mutated = TRUE] ELSE scan
    /\ Observe(memory_chunks', summaries, total_interactions)

\* run(), lines 248-254: start() loads the saved memory and sets is_running,
\* then the audio thread is started.
Start ==
    /\ pcV = "init"
    /\ load_from_file(file)
    /\ log_by' = [i \in 1..Len(log') |-> [by |-> "load", n |-> i]]
    /\ is_running' = TRUE
    /\ pcV' = "loop"
    /\ pcA' = "loop"
    /\ UNCHANGED <<now, file, hash_seed, since_reset>>
    /\ UNCHANGED <<current_ocr_text, frames, polls, chunkV, chunkA, ocr_result,
                   question, context, scan, raised, made, seen>>
    /\ UNCHANGED devVars

\* while self.is_running (line 257)
MainLoop ==
    /\ pcV = "loop"
    /\ IF is_running
       THEN /\ frames < MaxFrames
            /\ frames' = frames + 1
            /\ pcV' = "frame"
       ELSE /\ pcV' = "stop"
            /\ UNCHANGED frames
    /\ UNCHANGED <<apiVars, is_running, current_ocr_text, chunkV, ocr_result,
                   scan, raised, audioLocals, made, log_by, seen>>
    /\ UNCHANGED devVars

\* process_camera_frame(), lines 101-112: the capture, the keyframe gate and
\* the OCR.  Nothing is recorded when the capture fails, the frame is not a
\* keyframe, or the OCR text did not change.
Frame ==
    /\ pcV = "frame"
    /\ \/ /\ pcV' = "summary"
          /\ UNCHANGED <<ocr_result, current_ocr_text>>
       \/ \E ocr_data \in OcrData :
              /\ RunWork + (IF ocr_data.text = "" THEN 1 ELSE 2) <= MaxRunWork
              /\ ocr_result' = ocr_data
              /\ current_ocr_text' = ocr_data.text
              /\ pcV' = "add_ocr"
    /\ UNCHANGED <<apiVars, is_running, frames, chunkV, scan, raised,
                   audioLocals, made, log_by, seen>>
    /\ UNCHANGED devVars

\* add_ocr_event(ocr_result), lines 73-78: the chunk is built (and stamped)
AddOcrBuild ==
    /\ pcV = "add_ocr"
    /\ IF ocr_result.text # ""
       THEN /\ chunkV' = Built(OcrChunk(ocr_result), "visual")
            /\ made' = [made EXCEPT !.visual = @ + 1]
            /\ pcV' = "append_ocr"
       ELSE /\ pcV' = "add_keyframe"
            /\ UNCHANGED <<chunkV, made>>
    /\ UNCHANGED <<apiVars, is_running, frames, ocr_result, current_ocr_text,
                   scan, raised, audioLocals, log_by, seen>>
    /\ UNCHANGED devVars

\* add_ocr_event, line 79
AddOcrAppend ==
    /\ pcV = "append_ocr"
    /\ ThreadAppend(chunkV, "visual")
    /\ chunkV' = None
    /\ pcV' = "add_keyframe"
    /\ UNCHANGED <<summaries, last_summary_time, session_start_time,
                   total_interactions, now, file, hash_seed, since_reset, ret>>
    /\ UNCHANGED <<is_running, frames, ocr_result, current_ocr_text, raised,
                   audioLocals, made>>
    /\ UNCHANGED devVars

\* add_keyframe(...), lines 47-51
AddKeyframeBuild ==
    /\ pcV = "add_keyframe"
    /\ chunkV' = Built(KeyframeChunk([ocr_text |-> ocr_result.text,
                                      confidence |-> ocr_result.confidence]),
                       "visual")
    /\ made' = [made EXCEPT !.visual = @ + 1]
    /\ pcV' = "append_keyframe"
    /\ UNCHANGED <<apiVars, is_running, frames, ocr_result, current_ocr_text,
                   scan, raised, audioLocals, log_by, seen>>
    /\ UNCHANGED devVars

\* add_keyframe, line 52
AddKeyframeAppend ==
    /\ pcV = "append_keyframe"
    /\ ThreadAppend(chunkV, "visual")
    /\ chunkV' = None
    /\ ocr_result' = None
    /\ pcV' = "summary"
    /\ UNCHANGED <<summaries, last_summary_time, session_start_time,
                   total_interactions, now, file, hash_seed, since_reset, ret>>
    /\ UNCHANGED <<is_running, frames, current_ocr_text, raised,
                   audioLocals, made>>
    /\ UNCHANGED devVars

\* check_and_create_summary(), lines 170-174, and create_summary() up to
\* the iterator of line 99.  On an empty buffer create_summary returns {} and
\* summary['summary_text'] raises KeyError, which run() does not catch.
CheckSummary ==
    /\ pcV = "summary"
    /\ IF ~should_create_summary
       THEN /\ pcV' = "key"
            /\ UNCHANGED <<scan, raised>>
       ELSE IF memory_chunks = <<>>
       THEN /\ raised' = "KeyError"
            /\ pcV' = "stop"
            /\ UNCHANGED scan
       ELSE /\ scan' = [pos |-> 0, size |-> Len(memory_chunks),
                        mutated |-> FALSE, items |-> <<>>]
            /\ pcV' = "scan"
            /\ UNCHANGED raised
    /\ UNCHANGED <<apiVars, is_running, frames, chunkV, ocr_result,
                   current_ocr_text, audioLocals, made, log_by, seen>>
    /\ UNCHANGED devVars

\* create_summary(), lines 99-105: one next() of the deque iterator, which
\* raises RuntimeError when the deque was appended to since the iterator
\* was made.
ScanNext ==
    /\ pcV = "scan"
    /\ IF scan.mutated
       THEN /\ raised' = "RuntimeError"
            /\ scan' = None
            /\ pcV' = "stop"
       ELSE IF scan.pos < scan.size
       THEN /\ scan' = [scan EXCEPT !.pos = @ + 1,
                                    !.items = Append(@, memory_chunks[scan.pos + 1])]
            /\ UNCHANGED <<pcV, raised>>
       ELSE /\ pcV' = "summarize"
            /\ UNCHANGED <<scan, raised>>
    /\ UNCHANGED <<apiVars, is_running, frames, chunkV, ocr_result,
                   current_ocr_text, audioLocals, made, log_by, seen>>
    /\ UNCHANGED devVars

\* create_summary(), lines 108-127, from what the scan collected
Summarize ==
    /\ pcV = "summarize"
    /\ summaries' = Append(summaries,
                           MemoryChunk("summary", SummaryOf(scan.items), 0))
    /\ last_summary_time' = now
    /\ since_reset' = 0
    /\ scan' = None
    /\ pcV' = "key"
    /\ Observe(memory_chunks, summaries', total_interactions)
    /\ UNCHANGED <<memory_chunks, session_start_time, total_interactions, now,
                   file, hash_seed, log, ret>>
    /\ UNCHANGED <<is_running, frames, chunkV, ocr_result, current_ocr_text,
                   raised, audioLocals, made, log_by>>
    /\ UNCHANGED devVars

\* run(), lines 272-282: 'q' breaks out of the loop, Ctrl-C raises
\* KeyboardInterrupt, anything else goes round again.
Key ==
    /\ pcV = "key"
    /\ \/ /\ pcV' = "stop"
          /\ UNCHANGED raised
       \/ /\ raised' = "KeyboardInterrupt"
          /\ pcV' = "stop"
       \/ /\ frames < MaxFrames
          /\ pcV' = "loop"
          /\ UNCHANGED raised
    /\ UNCHANGED <<apiVars, is_running, frames, chunkV, ocr_result,
                   current_ocr_text, scan, audioLocals, made, log_by, seen>>
    /\ UNCHANGED devVars

\* stop(), line 88
Stop ==
    /\ pcV = "stop"
    /\ is_running' = FALSE
    /\ pcV' = "save"
    /\ UNCHANGED <<apiVars, current_ocr_text, frames, chunkV, ocr_result, scan,
                   raised, audioLocals, made, log_by, seen>>
    /\ UNCHANGED devVars

\* stop(), line 91: save_to_file; a failing open() is printed and swallowed
Save ==
    /\ pcV = "save"
    /\ \/ file' = [kind |-> "doc", data |-> SavedDocument]
       \/ file' = file
    /\ pcV' = "saved"
    /\ UNCHANGED <<memVars, now, hash_seed, log, since_reset, ret>>
    /\ UNCHANGED <<is_running, current_ocr_text, frames, chunkV, ocr_result,
                   scan, raised, audioLocals, made, log_by, seen>>
    /\ UNCHANGED devVars

\* run() returns and the interpreter exits, ending the daemon audio thread
\* wherever it stands.
Exit ==
    /\ pcV = "saved"
    /\ pcV' = "exited"
    /\ UNCHANGED <<apiVars, is_running, current_ocr_text, frames, chunkV,
                   ocr_result, scan, raised, audioLocals, made, log_by, seen>>
    /\ UNCHANGED devVars

\* _audio_loop() that never tests is_running
AudioLoopDeaf ==
    /\ pcA = "loop"
    /\ pcV # "exited"
    /\ polls < MaxPolls
    /\ polls' = polls + 1
    /\ pcA' = "poll"
    /\ UNCHANGED <<apiVars, is_running, visualLocals, chunkA, question, context,
                   made, log_by, seen>>
    /\ UNCHANGED devVars

\* _audio_loop(), line 294: while self.is_running
AudioLoop ==
    /\ pcA = "loop"
    /\ pcV # "exited"
    /\ IF is_running
       THEN /\ polls < MaxPolls
            /\ polls' = polls + 1
            /\ pcA' = "poll"
       ELSE /\ pcA' = "done"
            /\ UNCHANGED polls
    /\ UNCHANGED <<apiVars, is_running, visualLocals, chunkA, question, context,
                   made, log_by, seen>>
    /\ UNCHANGED devVars

\* process_audio_stream(), lines 127-130: audio.process_audio_stream() gives
\* None or the transcription of a question not asked by the user.
Poll ==
    /\ pcA = "poll"
    /\ pcV # "exited"
    /\ \/ /\ pcA' = "loop"
          /\ UNCHANGED question
       \/ \E question_data \in QuestionData :
              /\ RunWork + 2 <= MaxRunWork
              /\ question' = question_data
              /\ pcA' = "add_question"
    /\ UNCHANGED <<apiVars, is_running, visualLocals, polls, chunkA, context,
                   made, log_by, seen>>
    /\ UNCHANGED devVars

\* add_question(result), lines 56-59
AddQuestionBuild ==
    /\ pcA = "add_question"
    /\ pcV # "exited"
    /\ chunkA' = Built(QuestionChunk(question), "audio")
    /\ made' = [made EXCEPT !.audio = @ + 1]
    /\ pcA' = "append_question"
    /\ UNCHANGED <<apiVars, is_running, visualLocals, polls, question, context,
                   log_by, seen>>
    /\ UNCHANGED devVars

\* add_question that drops the chunk instead of appending it
AddQuestionAppendLost ==
    /\ pcA = "append_question"
    /\ pcV # "exited"
    /\ chunkA' = None
    /\ pcA' = "count"
    /\ UNCHANGED <<apiVars, is_running, visualLocals, polls, question, context,
                   made, log_by, seen>>
    /\ UNCHANGED devVars

\* add_question, line 60
AddQuestionAppend ==
    /\ pcA = "append_question"
    /\ pcV # "exited"
    /\ ThreadAppend(chunkA, "audio")
    /\ chunkA' = None
    /\ pcA' = "count"
    /\ UNCHANGED <<summaries, last_summary_time, session_start_time,
                   total_interactions, now, file, hash_seed, since_reset, ret>>
    /\ UNCHANGED <<is_running, pcV, frames, chunkV, ocr_result,
                   current_ocr_text, raised, polls, question, context, made>>
    /\ UNCHANGED devVars

\* add_question, line 61
CountQuestion ==
    /\ pcA = "count"
    /\ pcV # "exited"
    /\ total_interactions' = total_interactions + 1
    /\ pcA' = "ctx_total"
    /\ UNCHANGED <<memory_chunks, summaries, last_summary_time,
                   session_start_time, now, file, hash_seed, log, since_reset, ret>>
    /\ UNCHANGED <<is_running, visualLocals, polls, chunkA, question, context,
                   made, log_by, seen>>
    /\ UNCHANGED devVars

\* get_context_for_llm(), lines 166-167
ReadTotal ==
    /\ pcA = "ctx_total"
    /\ pcV # "exited"
    /\ context' = [session_duration   |-> now - session_start_time,
                   total_interactions |-> total_interactions]
    /\ seen' = {ContextOf(memory_chunks, summaries, total_interactions)}
    /\ pcA' = "ctx_summary"
    /\ UNCHANGED <<apiVars, is_running, visualLocals, polls, chunkA, question,
                   made, log_by>>
    /\ UNCHANGED devVars

\* get_context_for_llm(), line 168
ReadSummary ==
    /\ pcA = "ctx_summary"
    /\ pcV # "exited"
    /\ context' = [session_duration   |-> context.session_duration,
                   total_interactions |-> context.total_interactions,
                   latest_summary     |-> get_latest_summary]
    /\ pcA' = "ctx_recent"
    /\ UNCHANGED <<apiVars, is_running, visualLocals, polls, chunkA, question,
                   made, log_by, seen>>
    /\ UNCHANGED devVars

\* get_context_for_llm(), line 169
ReadRecent ==
    /\ pcA = "ctx_recent"
    /\ pcV # "exited"
    /\ context' = [session_duration   |-> context.session_duration,
                   total_interactions |-> context.total_interactions,
                   latest_summary     |-> context.latest_summary,
                   recent_events      |-> get_recent_context(CONTEXT_CHUNKS)]
    /\ pcA' = "llm"
    /\ UNCHANGED <<apiVars, is_running, visualLocals, polls, chunkA, question,
                   made, log_by, seen>>
    /\ UNCHANGED devVars

\* process_audio_stream(), lines 143-158: llm.generate_answer returns and
\* the answer chunk is built, or it raises, which _audio_loop() catches
\* and prints (lines 298-300).  The chunk in hand keeps, as history, the
\* arguments the call was made with.
Answer ==
    /\ pcA = "llm"
    /\ pcV # "exited"
    /\ \/ \E text \in AnswerTexts :
              /\ chunkA' = [chunk |-> AnswerChunk([text |-> text,
                                                   question |-> question.text]),
                            n     |-> made.audio + 1,
                            asked |-> [question |-> question.text,
                                       context  |-> context,
                                       ocr_text |-> current_ocr_text]]
              /\ made' = [made EXCEPT !.audio = @ + 1]
              /\ pcA' = "append_answer"
              /\ UNCHANGED <<question, context, seen>>
       \/ /\ pcA' = "loop"
          /\ question' = None
          /\ context' = None
          /\ seen' = {}
          /\ UNCHANGED <<chunkA, made>>
    /\ UNCHANGED <<apiVars, is_running, visualLocals, polls, log_by>>
    /\ UNCHANGED devVars

\* add_answer, line 69
AddAnswerAppend ==
    /\ pcA = "append_answer"
    /\ pcV # "exited"
    /\ ThreadAppend(chunkA, "audio")
    /\ chunkA' = None
    /\ question' = None
    /\ context' = None
    /\ pcA' = "loop"
    /\ UNCHANGED <<summaries, last_summary_time, session_start_time,
                   total_interactions, now, file, hash_seed, since_reset, ret>>
    /\ UNCHANGED <<is_running, pcV, frames, chunkV, ocr_result,
                   current_ocr_text, raised, polls, made>>
    /\ UNCHANGED devVars

\* time passes while run() runs
RunTick ==
    /\ pcV \notin {"init", "exited"}
    /\ now < MaxTime
    /\ RunWork < MaxRunWork
    /\ now' = now + 1
    /\ since_reset' = since_reset + 1
    /\ UNCHANGED <<memVars, file, hash_seed, log, ret, runVars, devVars>>

\* MultimodalAssistant.__init__, nothing saved at MEMORY_DB_PATH yet
InitRun ==
    /\ NotRunning
    /\ DevicesIdle
    /\ memory_chunks = <<>>
    /\ summaries = <<>>
    /\ now = 1
    /\ last_summary_time = now
    /\ session_start_time = now
    /\ total_interactions = 0
    /\ file = [kind |-> "missing"]
    /\ hash_seed = 0
    /\ log = <<>>
    /\ since_reset = 0
    /\ ret = Returned("__init__", None)

NextRun ==
    \/ Start
    \/ MainLoop
    \/ Frame
    \/ AddOcrBuild
    \/ AddOcrAppend
    \/ AddKeyframeBuild
    \/ AddKeyframeAppend
    \/ CheckSummary
    \/ ScanNext
    \/ Summarize
    \/ Key
    \/ Stop
    \/ Save
    \/ Exit
    \/ AudioLoop
    \/ Poll
    \/ AddQuestionBuild
    \/ AddQuestionAppend
    \/ CountQuestion
    \/ ReadTotal
    \/ ReadSummary
    \/ ReadRecent
    \/ Answer
    \/ AddAnswerAppend
    \/ RunTick

SpecRun == InitRun /\ [][NextRun]_vars

(***************************************************************************)
(* Claims checked under SpecRun                                            *)
(***************************************************************************)
Producers == {"visual", "audio"}

\* Positions of the log appended by thread who, up to position i.
AppendsBy(who, i) == {j \in 1..i : log_by[j].by = who}

\* The chunk thread who has built and not yet appended, if any.
Pending(who) ==
    IF who = "visual" THEN (IF chunkV = None THEN 0 ELSE 1)
    ELSE (IF chunkA = None THEN 0 ELSE 1)

\* C3: with the visual loop having appended M events and the audio loop K,
\* whatever the interleaving of their steps, the store holds exactly
\* min(C, M + K) events, they are the last min(C, M + K) appended, each at one
\* position (none lost, none twice), and the events of each producer appear
\* in the order that producer built and appended them.
C3_ConcurrentAppends ==
    /\ Len(log_by) = Len(log)
    /\ \A who \in Producers :
           Cardinality(AppendsBy(who, Len(log_by))) = made[who] - Pending(who)
    /\ Len(memory_chunks) =
           Min(MAX_MEMORY_CHUNKS,
               (made.visual - Pending("visual")) + (made.audio - Pending("audio")))
    /\ memory_chunks = LastOf(log, Len(memory_chunks))
    /\ \A i \in 1..Len(log_by) :
           log_by[i].n = Cardinality(AppendsBy(log_by[i].by, i))

\* Both loops have appended, their appends alternated, and the oldest
\* event has been evicted.
C3_Witness ==
    /\ Len(log) > MAX_MEMORY_CHUNKS
    /\ chunkV = None
    /\ chunkA = None
    /\ \E i, j, k \in 1..Len(log_by) :
           /\ i < j
           /\ j < k
           /\ log_by[i].by = "visual"
           /\ log_by[j].by = "audio"
           /\ log_by[k].by = "visual"

\* The three fields of a context that describe the store.
StoreFields(c) ==
    [total_interactions |-> c.total_interactions,
     latest_summary     |-> c.latest_summary,
     recent_events      |-> c.recent_events]

\* C4: every Context get_context_for_llm returns while the visual loop runs
\* is a snapshot of one single state of the store: total_interactions,
\* latest_summary and recent_events are those of one of the states the store
\* was in between the first and the last read of the context.
C4_ContextIsSnapshot ==
    pcA = "llm" => StoreFields(context) \in seen

\* C5: in every reachable state the timestamps of the events in the buffer
\* are non-decreasing in buffer order, also when both loops build and append
\* events concurrently.
C5_TimestampsNonDecreasing ==
    \A i, j \in 1..Len(memory_chunks) :
        i < j => memory_chunks[i].timestamp <= memory_chunks[j].timestamp

(***************************************************************************)
(* Claims on summarization, checked under Spec                             *)
(***************************************************************************)
\* C11: whatever the store holds, an empty buffer included, each call of
\* create_summary appends exactly one Summary to summaries and sets
\* last_summary_time to the current time, so that should_create_summary()
\* is false right after it.
C11_EachTriggerAppendsOne ==
    [][ret'.op = "create_summary" =>
          /\ Len(summaries') = Len(summaries) + 1
          /\ last_summary_time' = now'
          /\ ~(now' - last_summary_time' >= SUMMARY_INTERVAL_SECONDS)]_vars

\* Number of events of one type in the buffer.
Buffered(chunk_type) ==
    Cardinality({i \in 1..Len(memory_chunks) :
                    memory_chunks[i].chunk_type = chunk_type})

\* Number of events of one type ever appended since the buffer was empty.
Appended(chunk_type) ==
    Cardinality({i \in 1..Len(log) : log[i].chunk_type = chunk_type})

\* create_summary has just returned a summary (the buffer was not empty).
SummaryReturned ==
    /\ ret.op = "create_summary"
    /\ "statistics" \in DOMAIN ret.val

\* C12: the statistics of a created Summary are the numbers of Question,
\* Keyframe and OcrText events in the buffer when create_summary ran;
\* evicted events are counted nowhere.
C12_StatisticsCountBuffer ==
    SummaryReturned =>
        ret.val.statistics = [questions_asked    |-> Buffered("question"),
                              keyframes_captured |-> Buffered("keyframe"),
                              ocr_events         |-> Buffered("ocr")]

\* A summary created after an event of a counted type was evicted.
C12_Witness ==
    /\ SummaryReturned
    /\ Len(log) > MAX_MEMORY_CHUNKS
    /\ \E chunk_type \in {"question", "keyframe", "ocr"} :
           Appended(chunk_type) > Buffered(chunk_type)

(***************************************************************************)
(* SpecSummary: create_summary applied to every small buffer, with         *)
(* question and OCR texts that can be told apart, in a process of any hash *)
(* seed; the assistant may be stopped and started again in a new process,  *)
(* which reloads what the old one saved.                                   *)
(***************************************************************************)
SummaryQuestionTexts == {"q1", "q2", "q3"}
SummaryOcrTexts == {"t1", "t2", "t3"}

\* the chunks the add_* methods leave in the buffer
SummaryChunks ==
    {MemoryChunk("question", [text |-> t, confidence |-> 90], 1) :
         t \in SummaryQuestionTexts}
    \cup {MemoryChunk("ocr", [text |-> t, confidence |-> 90, word_count |-> 1], 1) :
         t \in SummaryOcrTexts}
    \cup {MemoryChunk("keyframe", [description |-> "Visual keyframe captured",
                                   ocr_text |-> "t1", confidence |-> 90], 1),
          MemoryChunk("answer", [text |-> "a1", question |-> "q1"], 1)}

InitSummary ==
    /\ NotRunning
    /\ DevicesIdle
    /\ now = 1
    /\ last_summary_time = 1
    /\ session_start_time = 1
    /\ memory_chunks \in SeqsUpTo(SummaryChunks, MAX_MEMORY_CHUNKS)
    /\ summaries = <<>>
    /\ total_interactions = CountOf(memory_chunks, "question")
    /\ file = [kind |-> "missing"]
    /\ hash_seed \in HashSeeds
    /\ log = memory_chunks
    /\ since_reset = 0
    /\ ret = Returned("__init__", None)

\* stop() saves the memory and the process ends; a new process constructs
\* the assistant and start() loads the saved memory (main.py lines 91, 63).
\* The new process has its own hash seed.
Restart ==
    /\ file' = [kind |-> "doc", data |-> SavedDocument]
    /\ hash_seed' \in HashSeeds
    /\ session_start_time' = SavedDocument.session_start
    /\ total_interactions' = SavedDocument.total_interactions
    /\ memory_chunks' = LoadChunks(SavedDocument.memory_chunks, Len(memory_chunks))
    /\ summaries' = LoadSummaries(SavedDocument.summaries, Len(summaries))
    /\ last_summary_time' = now
    /\ log' = memory_chunks'
    /\ since_reset' = 0
    /\ ret' = Returned("load_from_file", TRUE)
    /\ UNCHANGED now
    /\ UNCHANGED <<runVars, devVars>>

NextSummary ==
    \/ CreateSummary
    \/ Restart

SpecSummary == InitSummary /\ [][NextSummary]_vars

\* Positions of the Question events in the buffer.
QuestionsAt == {i \in 1..Len(memory_chunks) : memory_chunks[i].chunk_type = "question"}

\* C13: the questions list of a created Summary holds the texts of the
\* min(5, q) most recently appended of the q Question events in the buffer,
\* in buffer order, oldest first (5 is SUMMARY_QUESTIONS here).
C13_LastQuestions ==
    SummaryReturned =>
        LET qs == ret.val.questions
            n  == Min(SUMMARY_QUESTIONS, Cardinality(QuestionsAt))
        IN  /\ Len(qs) = n
            /\ \A k \in 1..n :
                   \E i \in QuestionsAt :
                       /\ Cardinality({j \in QuestionsAt : j >= i}) = n - k + 1
                       /\ qs[k] = memory_chunks[i].content.text

\* A summary of a buffer with more questions than the list keeps, all of
\* different texts.
C13_Witness ==
    /\ SummaryReturned
    /\ Cardinality(QuestionsAt) > SUMMARY_QUESTIONS
    /\ \A i, j \in QuestionsAt :
           i # j => memory_chunks[i].content.text # memory_chunks[j].content.text

\* The texts of the OcrText events in the buffer.
OcrTextsBuffered ==
    {memory_chunks[i].content.text :
         i \in {j \in 1..Len(memory_chunks) : memory_chunks[j].chunk_type = "ocr"}}

\* C14: the detected_text list of a created Summary has min(3, d) entries,
\* d being the number of distinct OcrText texts in the buffer (3 is
\* SUMMARY_TEXTS here); they are pairwise distinct and each is the text of an
\* OcrText event in the buffer; and two summaries computed from the same
\* buffer snapshot hold the same list.  Under SpecSummary the buffer never
\* changes, so every summary in the list was computed from the same snapshot.
C14_DetectedText ==
    /\ SummaryReturned =>
           LET dt == ret.val.detected_text
           IN  /\ Len(dt) = Min(SUMMARY_TEXTS, Cardinality(OcrTextsBuffered))
               /\ \A i, j \in 1..Len(dt) : i # j => dt[i] # dt[j]
               /\ \A i \in 1..Len(dt) : dt[i] \in OcrTextsBuffered
    /\ \A i, j \in 1..Len(summaries) :
           summaries[i].content.detected_text = summaries[j].content.detected_text

\* The sentence the decision table gives for the buffer, as its tokens.
TableText ==
    LET q  == Cardinality(QuestionsAt)
        o  == Buffered("ocr")
        cq == [tok |-> "Received questions", n |-> q]
        co == [tok |-> "Detected unique text segments",
               n |-> Cardinality(OcrTextsBuffered)]
        none == [tok |-> "Monitoring session with no significant activity", n |-> 0]
        sep == [tok |-> ". ", n |-> 0]
        end == [tok |-> ".", n |-> 0]
    IN  CASE q > 0 /\ o > 0 -> <<cq, sep, co, end>>
          [] q > 0 /\ o = 0 -> <<cq, end>>
          [] q = 0 /\ o > 0 -> <<co, end>>
          [] OTHER          -> <<none, end>>

\* C15: the summary_text create_summary gives follows the decision table: it
\* mentions the number of questions iff a Question event is in the buffer,
\* the number of distinct OCR texts iff an OcrText event is in the buffer,
\* and is the 'no significant activity' sentence iff the buffer holds
\* neither; the clauses are joined by '. '.
C15_SummaryTextTable ==
    ret.op = "create_summary" =>
        /\ "summary_text" \in DOMAIN ret.val
        /\ ret.val.summary_text = TableText

(***************************************************************************)
(* The camera subsystem (camera_subsystem.py), checked under SpecCamera.   *)
(* A frame is its content, one of a few pictures; ssim is the library's    *)
(* structural similarity, in hundredths: 100 for identical pictures,       *)
(* falling with their distance, and equal to the threshold at distance 3.  *)
(***************************************************************************)
MaxCaptures == 3

FrameContents == {[pixels |-> n] : n \in 0..4}

BlankFrame == [pixels |-> 0]

Abs(a) == IF a >= 0 THEN a ELSE 0 - a

ssim(a, b) == 100 - 5 * Abs(a.pixels - b.pixels)

\* is_keyframe, the gate with the threshold included
below_threshold_inclusive(similarity) == similarity <= KEYFRAME_THRESHOLD

\* is_keyframe: is_keyframe = similarity < config.KEYFRAME_THRESHOLD
below_threshold(similarity) == similarity < KEYFRAME_THRESHOLD

\* is_keyframe with no cold start: with no reference yet, the frame is
\* compared with a blank picture
is_keyframe_blank_reference(current_frame) ==
    LET reference == IF previous_frame = None THEN BlankFrame ELSE previous_frame
        similarity == ssim(current_frame, reference)
    IN  [frame |-> current_frame,
         is_keyframe |-> below_threshold(similarity),
         similarity |-> similarity]

\* is_keyframe: what it returns for current_frame, (is_keyframe, similarity)
is_keyframe(current_frame) ==
    IF previous_frame = None
    THEN [frame |-> current_frame, is_keyframe |-> TRUE, similarity |-> 0]
    ELSE LET similarity == ssim(current_frame, previous_frame)
         IN  [frame |-> current_frame,
              is_keyframe |-> below_threshold(similarity),
              similarity |-> similarity]

\* Mutant of Evaluate: every evaluated frame becomes the reference
EvaluateAgainstPrevious(result) ==
    /\ previous_frame' = result.frame
    /\ IF result.is_keyframe
       THEN /\ keyframe_count' = keyframe_count + 1
            /\ last_keyframe_time' = now
       ELSE UNCHANGED <<keyframe_count, last_keyframe_time>>

\* is_keyframe: what it assigns; a keyframe becomes the reference
Evaluate(result) ==
    IF result.is_keyframe
    THEN /\ previous_frame' = result.frame
         /\ keyframe_count' = keyframe_count + 1
         /\ last_keyframe_time' = now
    ELSE UNCHANGED <<previous_frame, keyframe_count, last_keyframe_time>>

\* CameraSubsystem.is_keyframe called with a frame
IsKeyframe ==
    /\ keyframe_count < MaxCaptures
    /\ \E current_frame \in FrameContents :
           LET result == is_keyframe(current_frame)
           IN  /\ Evaluate(result)
               /\ ret' = Returned("is_keyframe", result)
    /\ UNCHANGED <<frame_count, audVars, ocrVars>>
    /\ UNCHANGED <<memVars, now, file, hash_seed, log, since_reset, runVars>>

\* CameraSubsystem.get_frame_with_keyframe_detection: capture_frame gives no
\* frame when the camera is not open or the read fails, and counts the frame
\* otherwise
GetFrameWithKeyframeDetection ==
    /\ frame_count < MaxCaptures
    /\ keyframe_count < MaxCaptures
    /\ \E captured \in BOOLEAN, frame \in FrameContents :
           IF ~captured
           THEN /\ ret' = Returned("get_frame_with_keyframe_detection", None)
                /\ UNCHANGED camVars
           ELSE LET result == is_keyframe(frame)
                IN  /\ frame_count' = frame_count + 1
                    /\ Evaluate(result)
                    /\ ret' = Returned("get_frame_with_keyframe_detection",
                                       result)
    /\ UNCHANGED <<audVars, ocrVars>>
    /\ UNCHANGED <<memVars, now, file, hash_seed, log, since_reset, runVars>>

InitCamera == Init

NextCamera ==
    \/ IsKeyframe
    \/ GetFrameWithKeyframeDetection
    \/ Tick

SpecCamera == InitCamera /\ [][NextCamera]_vars

\* The step is an evaluation of a frame by the keyframe gate
GateEvaluates ==
    /\ ret'.op \in {"is_keyframe", "get_frame_with_keyframe_detection"}
    /\ ret'.val # None

\* C16: the first frame the keyframe gate ever evaluates is reported as a
\* keyframe whatever its content, becomes the reference frame, and raises the
\* keyframe counter by one.
C16_ColdStartKeyframe ==
    [][(GateEvaluates /\ previous_frame = None /\ keyframe_count = 0) =>
          /\ ret'.val.is_keyframe
          /\ previous_frame' = ret'.val.frame
          /\ keyframe_count' = keyframe_count + 1]_vars

\* Some frame has been evaluated, and until one is there is no reference
C16_Witness ==
    /\ ret.op = "get_frame_with_keyframe_detection"
    /\ ret.val # None
    /\ ret.val.frame = BlankFrame
    /\ keyframe_count = 1
    /\ previous_frame = BlankFrame

\* C17: a frame evaluated after the first is reported as a keyframe exactly
\* when its similarity to the current reference frame is strictly below the
\* threshold; so a frame identical to the reference is never a keyframe and
\* one of similarity below 0.85 is.
C17_KeyframeIffBelowThreshold ==
    [][(GateEvaluates /\ previous_frame # None) =>
          LET similarity == ssim(ret'.val.frame, previous_frame)
          IN  /\ ret'.val.is_keyframe <=> similarity < KEYFRAME_THRESHOLD
              /\ ret'.val.frame = previous_frame =>
                     /\ similarity = 100
                     /\ ~ret'.val.is_keyframe
              /\ similarity < 85 => ret'.val.is_keyframe]_vars

\* A frame whose similarity to the reference is the threshold itself was
\* evaluated and is no keyframe
C17_Witness ==
    /\ ret.op \in {"is_keyframe", "get_frame_with_keyframe_detection"}
    /\ ret.val # None
    /\ previous_frame # None
    /\ keyframe_count >= 2
    /\ ret.val.frame # previous_frame
    /\ ssim(ret.val.frame, previous_frame) = KEYFRAME_THRESHOLD
    /\ ~ret.val.is_keyframe

(***************************************************************************)
(* The audio subsystem (audio_subsystem.py), checked under SpecAudio.      *)
(* A text is the sequence of its characters.  Similarities and the speaker *)
(* threshold are counted in hundredths.                                    *)
(***************************************************************************)
MaxChunks == 2

UpperCase == <<"A", "B", "C", "D", "E", "F", "G", "H", "I", "J", "K", "L", "M",
               "N", "O", "P", "Q", "R", "S", "T", "U", "V", "W", "X", "Y", "Z">>
LowerCase == <<"a", "b", "c", "d", "e", "f", "g", "h", "i", "j", "k", "l", "m",
               "n", "o", "p", "q", "r", "s", "t", "u", "v", "w", "x", "y", "z">>

\* str.lower
lower(text) ==
    [i \in 1..Len(text) |->
        IF \E k \in 1..Len(UpperCase) : UpperCase[k] = text[i]
        THEN LowerCase[CHOOSE k \in 1..Len(UpperCase) : UpperCase[k] = text[i]]
        ELSE text[i]]

\* str.strip
strip(text) ==
    LET inked == {i \in 1..Len(text) : text[i] # " "}
    IN  IF inked = {} THEN <<>>
        ELSE SubSeq(text, CHOOSE i \in inked : \A j \in inked : i <= j,
                          CHOOSE i \in inked : \A j \in inked : i >= j)

\* str.endswith
endswith(text, suffix) ==
    /\ Len(suffix) <= Len(text)
    /\ SubSeq(text, Len(text) - Len(suffix) + 1, Len(text)) = suffix

\* re.search of a literal at the start of the text (^literal)
StartsWith(text, literal) ==
    /\ Len(literal) <= Len(text)
    /\ SubSeq(text, 1, Len(literal)) = literal

\* re.search of a literal anywhere in the text
Contains(text, literal) ==
    \E i \in 1..(Len(text) - Len(literal) + 1) :
        SubSeq(text, i, i + Len(literal) - 1) = literal

\* config.QUESTION_PATTERNS[1]: ^(what|who|...|do|does)
QuestionOpeners ==
    {<<"w", "h", "a", "t">>,
     <<"w", "h", "o">>,
     <<"w", "h", "e", "r", "e">>,
     <<"w", "h", "e", "n">>,
     <<"w", "h", "y">>,
     <<"h", "o", "w">>,
     <<"c", "a", "n">>,
     <<"c", "o", "u", "l", "d">>,
     <<"w", "o", "u", "l", "d">>,
     <<"i", "s">>,
     <<"a", "r", "e">>,
     <<"d", "o">>,
     <<"d", "o", "e", "s">>}

\* config.QUESTION_PATTERNS[2]: (tell me|explain|show me|help)
QuestionPhrases ==
    {<<"t", "e", "l", "l", " ", "m", "e">>,
     <<"e", "x", "p", "l", "a", "i", "n">>,
     <<"s", "h", "o", "w", " ", "m", "e">>,
     <<"h", "e", "l", "p">>}

\* _is_question without lower() and re.IGNORECASE
is_question_case_sensitive(text) ==
    LET text_lower == strip(text)
    IN  \/ endswith(text_lower, <<"?">>)
        \/ \E opener \in QuestionOpeners : StartsWith(text_lower, opener)
        \/ \E phrase \in QuestionPhrases : Contains(text_lower, phrase)

\* AudioSubsystem._is_question
is_question(text) ==
    LET text_lower == strip(lower(text))
    IN  \/ endswith(text_lower, <<"?">>)
        \/ \E opener \in QuestionOpeners : StartsWith(text_lower, opener)
        \/ \E phrase \in QuestionPhrases : Contains(text_lower, phrase)

\* What the recogniser may hear: a question by its mark, one by its opener,
\* one by a phrase inside it, and two statements
Transcripts ==
    {<<"O", "k", "?">>,
     <<"D", "o", "n", "e">>,
     <<"I", " ", "h", "e", "l", "p">>,
     <<"F", "i", "n", "e">>,
     <<" ", "n", "o", " ">>}

\* Cosine similarities of an embedding and the voiceprint
Similarities == {0, SPEAKER_ID_THRESHOLD, SPEAKER_ID_THRESHOLD + 1, 100}

\* Values config.SPEAKER_ID_THRESHOLD may be given
SpeakerThresholds == {0 - 50, 0, SPEAKER_ID_THRESHOLD, 100, 120}

Voiceprint == [voiceprint |-> TRUE]

\* is_user_speaking: is_user = similarity > config.SPEAKER_ID_THRESHOLD
is_user(similarity) == similarity > speaker_threshold

\* AudioSubsystem.transcribe_speech
transcribe_speech(text, confidence) ==
    [text |-> text,
     is_question |-> is_question(text),
     confidence |-> confidence,
     timestamp |-> now]

\* process_audio_stream returning every transcription
returned_transcription_always(transcription) == transcription

\* process_audio_stream: only return if it's a question
returned_transcription(transcription) ==
    IF transcription.is_question THEN transcription ELSE None

\* The record of a stage that ran
VoiceActivity(has_speech) == [stage |-> "voice_activity", result |-> has_speech]

SpeakerIdentity(similarity) ==
    IF user_voiceprint = None
    THEN [stage |-> "speaker_identity", result |-> FALSE, compared |-> FALSE]
    ELSE [stage |-> "speaker_identity", result |-> is_user(similarity),
          compared |-> TRUE, similarity |-> similarity]

Transcription(transcription) ==
    [stage |-> "transcription", result |-> transcription]

QuestionClassification(transcription) ==
    [stage |-> "question_classification", result |-> transcription.is_question]

\* detect_voice_activity: only the WebRTC path counts the speech it detects;
\* the mock path and the energy fallback after an exception do not
SpeechCounted(has_speech, vad_raises) ==
    IF vad /\ ~vad_raises /\ has_speech THEN 1 ELSE 0

\* process_audio_stream that goes on to transcribe the user's speech
process_audio_stream_eager(heard) ==
    LET captured == heard.captured
        has_speech == heard.has_speech
        vad_raises == heard.vad_raises
        speaker == SpeakerIdentity(heard.similarity)
        transcription == transcribe_speech(heard.text, heard.confidence)
        none == [val |-> None, stages |-> <<>>, speech |-> 0, non_user |-> 0]
    IN  IF ~captured THEN none
        ELSE IF ~has_speech
        THEN [none EXCEPT !.stages = <<VoiceActivity(has_speech)>>]
        ELSE [val |-> IF speaker.result THEN None
                      ELSE returned_transcription(transcription),
              stages |-> <<VoiceActivity(has_speech), speaker,
                           Transcription(transcription),
                           QuestionClassification(transcription)>>,
              speech |-> SpeechCounted(has_speech, vad_raises),
              non_user |-> IF speaker.compared /\ ~speaker.result
                           THEN 1 ELSE 0]

\* process_audio_stream that hands a missing chunk on to the detectors
process_audio_stream_unchecked(heard) ==
    LET has_speech == heard.has_speech
        vad_raises == heard.vad_raises
        speaker == SpeakerIdentity(heard.similarity)
        transcription == transcribe_speech(heard.text, heard.confidence)
        none == [val |-> None, stages |-> <<>>, speech |-> 0, non_user |-> 0]
    IN  IF ~has_speech
        THEN [none EXCEPT !.stages = <<VoiceActivity(has_speech)>>]
        ELSE IF speaker.result
        THEN [none EXCEPT !.stages = <<VoiceActivity(has_speech), speaker>>,
                          !.speech = SpeechCounted(has_speech, vad_raises)]
        ELSE [val |-> returned_transcription(transcription),
              stages |-> <<VoiceActivity(has_speech), speaker,
                           Transcription(transcription),
                           QuestionClassification(transcription)>>,
              speech |-> SpeechCounted(has_speech, vad_raises),
              non_user |-> IF speaker.compared THEN 1 ELSE 0]

\* AudioSubsystem.process_audio_stream on what is heard in one poll (whether
\* a chunk was captured, what the detectors and the recogniser make of it):
\* what it returns, the stages it runs and what they add to the counters
process_audio_stream(heard) ==
    LET captured == heard.captured
        has_speech == heard.has_speech
        vad_raises == heard.vad_raises
        speaker == SpeakerIdentity(heard.similarity)
        transcription == transcribe_speech(heard.text, heard.confidence)
        none == [val |-> None, stages |-> <<>>, speech |-> 0, non_user |-> 0]
    IN  IF ~captured THEN none
        ELSE IF ~has_speech
        THEN [none EXCEPT !.stages = <<VoiceActivity(has_speech)>>]
        ELSE IF speaker.result
        THEN [none EXCEPT !.stages = <<VoiceActivity(has_speech), speaker>>,
                          !.speech = SpeechCounted(has_speech, vad_raises)]
        ELSE [val |-> returned_transcription(transcription),
              stages |-> <<VoiceActivity(has_speech), speaker,
                           Transcription(transcription),
                           QuestionClassification(transcription)>>,
              speech |-> SpeechCounted(has_speech, vad_raises),
              non_user |-> IF speaker.compared THEN 1 ELSE 0]

audioIdle == <<memVars, now, file, hash_seed, log, since_reset, runVars, camVars,
              ocrVars>>

\* AudioSubsystem.start: recording begins unless opening the stream fails
AudioStart ==
    /\ \E opened \in BOOLEAN :
           /\ is_recording' = (is_recording \/ opened)
           /\ ret' = Returned("start", opened)
    /\ UNCHANGED <<user_voiceprint, speech_count, non_user_speech_count,
                   speaker_threshold, vad, stages>>
    /\ UNCHANGED audioIdle

\* AudioSubsystem.stop
AudioStop ==
    /\ is_recording' = FALSE
    /\ ret' = Returned("stop", None)
    /\ UNCHANGED <<user_voiceprint, speech_count, non_user_speech_count,
                   speaker_threshold, vad, stages>>
    /\ UNCHANGED audioIdle

\* AudioSubsystem.load_user_voiceprint: the stored voiceprint or a mock one
LoadUserVoiceprint ==
    /\ user_voiceprint' = Voiceprint
    /\ ret' = Returned("load_user_voiceprint", TRUE)
    /\ UNCHANGED <<is_recording, speech_count, non_user_speech_count,
                   speaker_threshold, vad, stages>>
    /\ UNCHANGED audioIdle

\* AudioSubsystem.process_audio_stream.  capture_audio_chunk gives no chunk
\* when not recording or when the read fails.
ProcessAudioStream ==
    /\ speech_count < MaxChunks
    /\ non_user_speech_count < MaxChunks
    /\ \E read \in BOOLEAN, has_speech \in BOOLEAN, vad_raises \in BOOLEAN,
          similarity \in Similarities, text \in Transcripts,
          confidence \in Confidences :
           LET heard == [captured |-> is_recording /\ read,
                         has_speech |-> has_speech, vad_raises |-> vad_raises,
                         similarity |-> similarity, text |-> text,
                         confidence |-> confidence]
               run == process_audio_stream(heard)
           IN  /\ stages' = run.stages
               /\ speech_count' = speech_count + run.speech
               /\ non_user_speech_count' = non_user_speech_count + run.non_user
               /\ ret' = Returned("process_audio_stream", run.val)
    /\ UNCHANGED <<is_recording, user_voiceprint, speaker_threshold, vad>>
    /\ UNCHANGED audioIdle

\* AudioSubsystem.__init__, with any threshold configured and the WebRTC VAD
\* present or not
InitAudio ==
    /\ NotRunning
    /\ CameraIdle
    /\ AudioIdle
    /\ OcrIdle
    /\ speaker_threshold \in SpeakerThresholds
    /\ vad \in BOOLEAN
    /\ memory_chunks = <<>>
    /\ summaries = <<>>
    /\ now = 1
    /\ last_summary_time = now
    /\ session_start_time = now
    /\ total_interactions = 0
    /\ file = [kind |-> "missing"]
    /\ hash_seed = 0
    /\ log = <<>>
    /\ since_reset = 0
    /\ ret = Returned("__init__", None)

NextAudio ==
    \/ AudioStart
    \/ AudioStop
    \/ LoadUserVoiceprint
    \/ ProcessAudioStream

SpecAudio == InitAudio /\ [][NextAudio]_vars

\* A stage of the given name ran on the last chunk with the given result
Ran(stage, result) ==
    \E i \in 1..Len(stages) :
        stages[i].stage = stage /\ stages[i].result = result

\* C18: process_audio_stream returns a transcription only when, for the same
\* chunk, voice activity was detected, the speaker was classified as non-user
\* and the transcript was classified as a question; in every other case it
\* returns None.
C18_ReturnsOnlyNonUserQuestions ==
    ret.op = "process_audio_stream" =>
        IF /\ Ran("voice_activity", TRUE)
           /\ Ran("speaker_identity", FALSE)
           /\ Ran("question_classification", TRUE)
        THEN /\ ret.val # None
             /\ Ran("transcription", ret.val)
             /\ is_question(ret.val.text)
        ELSE ret.val = None

\* A question by its opener alone was heard from a speaker compared with the
\* voiceprint, and returned
C18_Witness ==
    /\ ret.op = "process_audio_stream"
    /\ ret.val # None
    /\ ~endswith(ret.val.text, <<"?">>)
    /\ \E i \in 1..Len(stages) :
           /\ stages[i].stage = "speaker_identity"
           /\ stages[i].compared

StageOrder == <<"voice_activity", "speaker_identity", "transcription",
                "question_classification">>

\* The stage let the chunk through to the next one
Positive(ran) ==
    CASE ran.stage = "voice_activity"   -> ran.result
      [] ran.stage = "speaker_identity" -> ~ran.result
      [] ran.stage = "transcription"    -> TRUE
      [] OTHER                          -> ran.result

\* C19: the stages run in the order voice-activity, speaker-identity,
\* transcription, question-classification and stop at the first negative:
\* speaker-identity runs only after a positive voice-activity result, and
\* transcription only after the speaker was classified as non-user.
C19_StagesInOrderShortCircuit ==
    /\ Len(stages) <= Len(StageOrder)
    /\ \A i \in 1..Len(stages) :
           /\ stages[i].stage = StageOrder[i]
           /\ i < Len(stages) => Positive(stages[i])
    /\ Ran("speaker_identity", TRUE) => Len(stages) = 2
    /\ Ran("voice_activity", FALSE) => Len(stages) = 1

\* The pipeline stopped at the speaker stage: the embedding was compared with
\* the voiceprint and found to be the user's
C19_Witness ==
    /\ ret.op = "process_audio_stream"
    /\ Len(stages) = 2
    /\ stages[2].stage = "speaker_identity"
    /\ stages[2].compared
    /\ stages[2].result
    /\ ret.val = None

\* C20: for every configured speaker threshold <= 1.0 an embedding whose
\* cosine similarity to the voiceprint is 1.0 is classified as the user, and
\* an embedding with similarity 0.0 is classified as non-user for every
\* threshold >= 0.
C20_SpeakerThresholdExtremes ==
    \A i \in 1..Len(stages) :
        (stages[i].stage = "speaker_identity" /\ stages[i].compared) =>
            /\ (stages[i].similarity = 100 /\ speaker_threshold <= 100) =>
                   stages[i].result
            /\ (stages[i].similarity = 0 /\ speaker_threshold >= 0) =>
                   ~stages[i].result

(***************************************************************************)
(* _is_question on its own, checked under SpecQuestion: the method called  *)
(* on texts put together from a few beginnings, middles and endings, with  *)
(* and without blanks around them.                                         *)
(***************************************************************************)
TextHeads == {<<>>, <<" ">>}

TextFirsts ==
    {<<"W", "h", "a", "t">>,
     <<"W", "H", "A", "T">>,
     <<"C", "a", "n", " ", "y", "o", "u">>,
     <<"D", "o", "n", "e">>,
     <<"T", "h", "i", "s">>,
     <<"I">>,
     <<"S", "o", "m", "e", "w", "h", "a", "t">>}

TextSeconds ==
    {<<>>,
     <<" ", "i", "s", " ", "t", "h", "i", "s">>,
     <<" ", "l", "o", "o", "k", "s", " ", "g", "o", "o", "d">>,
     <<" ", "e", "x", "p", "l", "a", "i", "n", " ", "t", "h", "i", "s">>,
     <<" ", "T", "e", "l", "l", " ", "M", "e">>,
     <<" ", "h", "e", "l", "p", "f", "u", "l">>,
     <<" ", "s", "h", "o", "w", " ", " ", "m", "e">>,
     <<" ", "d", "o", "e", "s", " ", "t", "h", "i", "s", " ", "d", "o">>}

TextTails == {<<>>, <<"?">>, <<"?", " ">>, <<" ">>, <<"?", "!">>}

QuestionInputs ==
    {h \o f \o m \o t : h \in TextHeads, f \in TextFirsts,
                        m \in TextSeconds, t \in TextTails}

\* AudioSubsystem._is_question called with a text
IsQuestion ==
    /\ \E text \in QuestionInputs :
           ret' = Returned("_is_question",
                           [text |-> text, result |-> is_question(text)])
    /\ UNCHANGED <<memVars, now, file, hash_seed, log, since_reset>>
    /\ UNCHANGED <<runVars, devVars>>

InitQuestion == Init

NextQuestion == IsQuestion

SpecQuestion == InitQuestion /\ [][NextQuestion]_vars

\* The condition as worded: the text ends with '?', or without regard to
\* case starts with an opener or contains one of the phrases
WordedQuestion(text) ==
    \/ endswith(text, <<"?">>)
    \/ \E opener \in QuestionOpeners : StartsWith(lower(text), opener)
    \/ \E phrase \in QuestionPhrases : Contains(lower(text), phrase)

ExampleQuestions ==
    {<<"W", "h", "a", "t", " ", "d", "o", "e", "s", " ", "t", "h", "i", "s", " ", "d", "o", "?">>,
     <<"C", "a", "n", " ", "y", "o", "u", " ", "e", "x", "p", "l", "a", "i", "n", " ", "t", "h", "i", "s", "?">>,
     <<"W", "H", "A", "T", " ", "i", "s", " ", "t", "h", "i", "s">>}

ExampleStatement == <<"T", "h", "i", "s", " ", "l", "o", "o", "k", "s", " ", "g", "o", "o", "d">>

\* C21 as worded: _is_question(text) is true exactly when the text ends with
\* '?' or, case-insensitively, starts with an interrogative opener or
\* contains one of the phrases.
C21_QuestionIffWorded ==
    ret.op = "_is_question" =>
        (ret.val.result <=> WordedQuestion(ret.val.text))

\* C21, amended: _is_question(text) is true exactly when the text with the
\* blanks around it removed ends with '?' or, case-insensitively, starts with
\* an interrogative opener or contains one of the phrases; the three example
\* questions are questions and 'This looks good' is not.
C21_QuestionIffWordedOfStripped ==
    ret.op = "_is_question" =>
        /\ ret.val.result <=> WordedQuestion(strip(ret.val.text))
        /\ ret.val.text \in ExampleQuestions => ret.val.result
        /\ ret.val.text = ExampleStatement => ~ret.val.result

\* 'WHAT is this' was classified, and is a question by its opener alone
C21_Witness ==
    /\ ret.op = "_is_question"
    /\ ret.val.text = <<"W", "H", "A", "T">> \o <<" ", "i", "s", " ", "t", "h", "i", "s">>
    /\ ret.val.result
    /\ ~endswith(ret.val.text, <<"?">>)

(***************************************************************************)
(* Claims on the orchestrator, checked under SpecRun                       *)
(***************************************************************************)
\* Number of events of one type among the first j appended
AppendedUpTo(chunk_type, j) ==
    Cardinality({i \in 1..j : log[i].chunk_type = chunk_type})

\* The last event the audio loop appended is the Question event in hand
QuestionAppended ==
    /\ question # None
    /\ \E i \in 1..Len(log) :
           /\ log_by[i].by = "audio"
           /\ \A j \in (i + 1)..Len(log) : log_by[j].by # "audio"
           /\ log[i].chunk_type = "question"
           /\ log[i].content.text = question.text

ContextBuilt ==
    /\ context # None
    /\ DOMAIN context = {"session_duration", "total_interactions",
                         "latest_summary", "recent_events"}

\* C22: for every question the audio loop detects, the Question event is
\* appended, then the Context is built, then the answer capability is called
\* with (question, context, current OCR text), and the Answer event carrying
\* that question is appended after the call returns; no Answer event is ever
\* appended before the Question event it answers.
C22_QuestionContextAnswerOrder ==
    /\ [](/\ pcA \in {"count", "ctx_total", "ctx_summary", "ctx_recent",
                      "llm", "append_answer"} => QuestionAppended
          /\ pcA \in {"llm", "append_answer"} => ContextBuilt
          /\ \A j \in 1..Len(log) :
                 log[j].chunk_type = "answer" =>
                     /\ AppendedUpTo("answer", j) <= AppendedUpTo("question", j)
                     /\ \E i \in 1..(j - 1) :
                            /\ log[i].chunk_type = "question"
                            /\ log[i].content.text = log[j].content.question)
    /\ [][(pcA = "llm" /\ pcA' = "append_answer") =>
            /\ chunkA'.asked = [question |-> question.text,
                                context  |-> context,
                                ocr_text |-> current_ocr_text]
            /\ chunkA'.chunk.content.question = question.text
            /\ log' = log]_vars
    /\ [][(pcA = "append_answer" /\ pcA' # pcA) =>
            /\ log' = Append(log, chunkA.chunk)
            /\ chunkA.chunk.chunk_type = "answer"]_vars

\* An Answer event was appended, with an event of the visual loop between it
\* and its Question event
C22_Witness ==
    \E i, j, k \in 1..Len(log) :
        /\ i < j
        /\ j < k
        /\ log[i].chunk_type = "question"
        /\ log_by[j].by = "visual"
        /\ log[k].chunk_type = "answer"
        /\ log[k].content.question = log[i].content.text

(***************************************************************************)
(* The visual tick, checked under SpecVisual: process_camera_frame of      *)
(* main.py called again and again by one thread, with the keyframe gate of *)
(* camera_subsystem.py and the change test of ocr_subsystem.py in full.    *)
(* An OCR text is named by its words.                                      *)
(***************************************************************************)
VisualTexts == {"", "a b c d", "a b c e", "a b e f"}

\* str.split: the words of a text
split(text) ==
    CASE text = "a b c d" -> {"a", "b", "c", "d"}
      [] text = "a b c e" -> {"a", "b", "c", "e"}
      [] text = "a b e f" -> {"a", "b", "e", "f"}
      [] OTHER            -> {}

\* Ten times the share of the words of new_text that old_text has too, and
\* ten times the 0.7 it is compared with, both scaled by the word count
Overlap10(new_text, old_text) ==
    10 * Cardinality(split(new_text) \cap split(old_text))
Share7(new_text) == 7 * Max(Cardinality(split(new_text)), 1)

\* OCRSubsystem._text_changed: what it returns and the text it keeps
text_changed(new_text) ==
    IF previous_text = ""
    THEN [changed |-> new_text # "", previous_text |-> new_text]
    ELSE LET changed == Overlap10(new_text, previous_text) < Share7(new_text)
         IN  [changed |-> changed,
              previous_text |-> IF changed THEN new_text ELSE previous_text]

\* OCRSubsystem.extract_text, for a frame whose text and confidence are given
extract_text(text, confidence) ==
    [text       |-> text,
     confidence |-> confidence,
     changed    |-> text_changed(text).changed,
     word_count |-> Cardinality(split(text))]

\* process_camera_frame, lines 108-119: the events it adds for a keyframe
\* (add_ocr_event adds nothing for an empty text)
recorded(ocr_data) ==
    IF ocr_data.changed
    THEN (IF ocr_data.text # "" THEN <<OcrChunk(ocr_data)>> ELSE <<>>)
         \o <<KeyframeChunk([ocr_text |-> ocr_data.text,
                             confidence |-> ocr_data.confidence])>>
    ELSE <<>>

RECURSIVE AppendAll(_, _)
\* memory_chunks.append of each chunk in turn
AppendAll(buffer, chunks) ==
    IF chunks = <<>> THEN buffer
    ELSE AppendAll(DequeAppend(buffer, Head(chunks)), Tail(chunks))

\* MultimodalAssistant.process_camera_frame
ProcessCameraFrame ==
    /\ frame_count < MaxCaptures
    /\ keyframe_count < MaxCaptures
    /\ \E captured \in BOOLEAN, frame \in FrameContents,
          text \in VisualTexts, confidence \in Confidences :
           IF ~captured
           THEN /\ ret' = Returned("process_camera_frame",
                                   [frame |-> None, is_keyframe |-> FALSE,
                                    ocr_result |-> None])
                /\ UNCHANGED <<camVars, ocrVars, current_ocr_text,
                               memory_chunks, log>>
           ELSE LET result == is_keyframe(frame)
                    ocr_data == extract_text(text, confidence)
                IN  /\ frame_count' = frame_count + 1
                    /\ Evaluate(result)
                    /\ IF result.is_keyframe
                       THEN /\ previous_text' = text_changed(text).previous_text
                            /\ current_ocr_text' =
                                   IF ocr_data.changed THEN ocr_data.text
                                   ELSE current_ocr_text
                            /\ memory_chunks' =
                                   AppendAll(memory_chunks, recorded(ocr_data))
                            /\ log' = log \o recorded(ocr_data)
                            /\ ret' = Returned("process_camera_frame",
                                               [frame |-> frame,
                                                is_keyframe |-> TRUE,
                                                ocr_result |-> ocr_data])
                       ELSE /\ ret' = Returned("process_camera_frame",
                                               [frame |-> frame,
                                                is_keyframe |-> FALSE,
                                                ocr_result |-> None])
                            /\ UNCHANGED <<ocrVars, current_ocr_text,
                                           memory_chunks, log>>
    /\ UNCHANGED <<summaries, last_summary_time, session_start_time,
                   total_interactions, now, file, hash_seed, since_reset>>
    /\ UNCHANGED <<is_running, pcV, pcA, frames, polls, chunkV, chunkA,
                   ocr_result, question, context, scan, raised, made, log_by,
                   seen>>
    /\ UNCHANGED audVars

InitVisual == Init

NextVisual == ProcessCameraFrame

SpecVisual == InitVisual /\ [][NextVisual]_vars

\* The events the step appended
NewEvents == SubSeq(log', Len(log) + 1, Len(log'))

NewEventsOf(chunk_type) ==
    {i \in 1..Len(NewEvents) : NewEvents[i].chunk_type = chunk_type}

\* The step is a visual tick whose frame the gate reported as a keyframe
KeyframeTick ==
    /\ ret'.op = "process_camera_frame"
    /\ ret'.val.is_keyframe

\* C23: for every frame the keyframe gate reports as a keyframe, the visual
\* loop invokes OCR and appends a Keyframe event to the store; an OcrText
\* event is appended only when the OCR text differs from the previous OCR
\* text (token-set overlap below 70 per cent).
C23_KeyframeRecorded ==
    [][KeyframeTick =>
          /\ ret'.val.ocr_result # None
          /\ Cardinality(NewEventsOf("keyframe")) = 1
          /\ NewEventsOf("ocr") # {} =>
                 Overlap10(ret'.val.ocr_result.text, previous_text)
                     < Share7(ret'.val.ocr_result.text)]_vars

(***************************************************************************)
(* Further claims on the orchestrator, checked under SpecRun               *)
(***************************************************************************)
\* C24: when the answer capability fails for a recorded question, the failure
\* does not leave question handling: the call is followed by an Answer event
\* for that question (a degraded one after a failure) being built and
\* appended, and the audio loop goes on to its next chunk.
C24_FailedAnswerDegraded ==
    /\ [][(pcA = "llm" /\ pcA' # pcA) =>
            /\ pcA' = "append_answer"
            /\ chunkA'.chunk.chunk_type = "answer"
            /\ chunkA'.chunk.content.question = question.text]_vars
    /\ [][(pcA = "append_answer" /\ pcA' # pcA) =>
            /\ pcA' = "loop"
            /\ log' = Append(log, chunkA.chunk)]_vars

\* C25: on shutdown the store is persisted only after both loops have exited:
\* neither loop appends an event after save_to_file has read the store, so
\* the persisted document holds every event and summary present when the
\* process exits.
C25_SavedAfterLoopsExit ==
    /\ [](pcV \in {"saved", "exited"} => pcA \in {"unstarted", "done"})
    /\ [][(pcV \in {"saved", "exited"}) =>
            (memory_chunks' = memory_chunks /\ summaries' = summaries)]_vars
    /\ []((pcV = "exited" /\ file.kind = "doc") =>
            /\ file.data.memory_chunks = DictsOf(memory_chunks)
            /\ file.data.summaries = DictsOf(summaries))

(***************************************************************************)
(* SpecStop: run(), in a session shorter than the summary interval, with   *)
(* the main thread sure to go through stop() once it has left its loop:    *)
(* stop() is straight-line code in the finally clause of run(), and the    *)
(* interpreter exits when run() returns.  Nothing is assumed of the audio  *)
(* thread, a daemon thread that the exit ends.                             *)
(***************************************************************************)
Shutdown == Stop \/ Save \/ Exit

\* A session shorter than the summary interval: the clock stands still, so
\* check_and_create_summary never finds a summary due.
NextStop ==
    \/ Start
    \/ MainLoop
    \/ Frame
    \/ AddOcrBuild
    \/ AddOcrAppend
    \/ AddKeyframeBuild
    \/ AddKeyframeAppend
    \/ CheckSummary
    \/ Key
    \/ Stop
    \/ Save
    \/ Exit
    \/ AudioLoop
    \/ Poll
    \/ AddQuestionBuild
    \/ AddQuestionAppend
    \/ CountQuestion
    \/ ReadTotal
    \/ ReadSummary
    \/ ReadRecent
    \/ Answer
    \/ AddAnswerAppend

SpecStop == InitRun /\ [][NextStop]_vars /\ WF_vars(Shutdown)

\* stop() has set is_running to False
StopSignalled == pcV \in {"save", "saved", "exited"}

\* The audio loop has left its while loop, or ended with the process
AudioLoopExited == pcA = "done" \/ pcV = "exited"

\* C26: once the stop signal is given (is_running set to False) both loops
\* eventually exit, and neither loop starts a new poll iteration after the
\* signal: each finishes at most the iteration in progress.
C26_LoopsExitAfterStop ==
    /\ [](StopSignalled => ~is_running)
    /\ (pcV = "stop") ~> (pcV = "exited" /\ AudioLoopExited)
    /\ [][StopSignalled => (frames' = frames /\ polls' = polls)]_vars
    /\ [][(pcA = "done") => (pcA' = "done")]_vars

\* The audio loop finished the question it was handling when the signal
\* came, saw the signal at its next test and left
C26_Witness ==
    /\ pcA = "done"
    /\ pcV = "saved"
    /\ Len(log) >= 2
    /\ log[Len(log)].chunk_type = "answer"
    /\ file.kind = "doc"
    /\ Len(file.data.memory_chunks) < Len(memory_chunks)

(***************************************************************************)
(* SpecPersist: the store saved, constructed anew and loaded.  It starts   *)
(* from every small store, with any of the documents of InitialFiles at    *)
(* the path.                                                               *)
(***************************************************************************)
\* MemorySubsystem.__init__ of a new process
NewStore ==
    /\ memory_chunks' = <<>>
    /\ summaries' = <<>>
    /\ last_summary_time' = now
    /\ session_start_time' = now
    /\ total_interactions' = 0
    /\ log' = <<>>
    /\ since_reset' = 0
    /\ ret' = Returned("__init__", None)
    /\ UNCHANGED <<now, file, hash_seed>>
    /\ UNCHANGED <<runVars, devVars>>

InitPersist ==
    /\ NotRunning
    /\ DevicesIdle
    /\ now = 2
    /\ last_summary_time = 1
    /\ session_start_time = 1
    /\ memory_chunks \in StoresUpTo(now)
    /\ summaries \in SeqsUpTo(SummariesUpTo(now), 1)
    /\ total_interactions \in 0..1
    /\ file \in InitialFiles
    /\ hash_seed = 0
    /\ log = memory_chunks
    /\ since_reset = now - last_summary_time
    /\ ret = Returned("__init__", None)

NextPersist ==
    \/ SaveToFile
    \/ NewStore
    \/ LoadFromFile(file)

SpecPersist == InitPersist /\ [][NextPersist]_vars

\* The fields save_to_file persists
StoreState ==
    [session_start      |-> session_start_time,
     total_interactions |-> total_interactions,
     memory_chunks      |-> memory_chunks,
     summaries          |-> summaries]

\* A store as __init__ leaves it, the clock readings apart
Fresh ==
    /\ memory_chunks = <<>>
    /\ summaries = <<>>
    /\ total_interactions = 0

\* What lines 195-209 of load_from_file leave in a fresh store when they
\* read the document data
loaded(data) ==
    LET nc == ReadCount(data.memory_chunks)
        ns == ReadCount(data.summaries)
    IN  [session_start      |-> data.session_start,
         total_interactions |-> data.total_interactions,
         memory_chunks      |-> LoadChunks(data.memory_chunks, nc),
         summaries          |-> IF nc = Len(data.memory_chunks)
                                THEN LoadSummaries(data.summaries, ns)
                                ELSE <<>>]

\* C27: for every store state with at most MAX_MEMORY_CHUNKS events,
\* save_to_file followed by load_from_file into a fresh store yields the
\* same events and the same summaries (type, content, timestamp, order) and
\* the same session_start and total_interactions.
C27_RoundTrip ==
    /\ [][(ret'.op = "save_to_file" /\ file' # file) =>
            /\ file'.kind = "doc"
            /\ loaded(file'.data) = StoreState]_vars
    /\ [][(ret'.op = "load_from_file" /\ Fresh /\ file.kind = "doc") =>
            StoreState' = loaded(file.data)]_vars

\* A store of two events and a summary, saved, then loaded into a new store
C27_Witness ==
    /\ ret.op = "load_from_file"
    /\ ret.val = TRUE
    /\ Len(memory_chunks) >= 2
    /\ Len(summaries) >= 1
    /\ memory_chunks[1].timestamp # memory_chunks[2].timestamp
    /\ session_start_time # now
    /\ file.kind = "doc"
    /\ file.data = SavedDocument

\* The entries of a document's event list, as from_dict reads them
Persisted(data) ==
    [i \in 1..Len(data.memory_chunks) |-> from_dict(data.memory_chunks[i])]

\* C28: loading a persisted document whose event list has more than
\* MAX_MEMORY_CHUNKS entries leaves the buffer with exactly
\* MAX_MEMORY_CHUNKS events, the last ones of the persisted list in their
\* persisted order; events in the buffer before the load do not survive it.
C28_OversizeLoadKeepsLast ==
    [][(/\ ret'.op = "load_from_file"
        /\ file.kind = "doc"
        /\ FirstBad(file.data.memory_chunks) = 0
        /\ Len(file.data.memory_chunks) > MAX_MEMORY_CHUNKS) =>
            /\ Len(memory_chunks') = MAX_MEMORY_CHUNKS
            /\ memory_chunks' =
                 SubSeq(Persisted(file.data),
                        Len(file.data.memory_chunks) - MAX_MEMORY_CHUNKS + 1,
                        Len(file.data.memory_chunks))]_vars

\* The oversize document loaded: its first entry is gone
C28_Witness ==
    /\ ret.op = "load_from_file"
    /\ ret.val = TRUE
    /\ file = [kind |-> "doc", data |-> OversizeDocument]
    /\ Len(memory_chunks) = MAX_MEMORY_CHUNKS
    /\ memory_chunks[1].content.word_count = 2
    /\ memory_chunks[MAX_MEMORY_CHUNKS].content.word_count = MAX_MEMORY_CHUNKS + 1

\* C29: a failed load (missing file, unreadable document, or a malformed
\* entry anywhere in the persisted lists) is reported as a false result,
\* never as an exception, and leaves an empty starting state: no buffered
\* events, no summaries and total_interactions 0.
C29_FailedLoadLeavesEmpty ==
    [][(ret'.op = "load_from_file" /\ Fresh /\ ret'.val # TRUE) =>
            /\ ret'.val = FALSE
            /\ memory_chunks' = <<>>
            /\ summaries' = <<>>
            /\ total_interactions' = 0]_vars

(***************************************************************************)
(* Claims on the end of the visual loop, checked under SpecRun             *)
(***************************************************************************)
\* The main thread has left the while loop of run()
VisualLoopLeft == pcV \in {"stop", "save", "saved", "exited"}

\* C30: the visual (main) loop exits only on an explicit stop request (quit
\* key or interrupt): no outcome of a frame capture, OCR call or
\* summarization tick, including the summary timer elapsing while the
\* buffer is empty, terminates the loop.
C30_LoopExitsOnlyOnRequest ==
    [](VisualLoopLeft => raised \in {"none", "KeyboardInterrupt"})

(***************************************************************************)
(* Claims on the summary scan of the visual loop, checked under SpecRun    *)
(***************************************************************************)
\* C31: the scan of the buffer made by a summarization trigger on the visual
\* loop is not interleaved with appends from the audio loop: every created
\* Summary's statistics are the counts of one single state of the buffer,
\* and the scan never fails because the buffer was modified while scanned.
C31_ScanNotInterleaved ==
    /\ []((pcV = "scan" /\ ~scan.mutated) =>
            scan.items = SubSeq(memory_chunks, 1, scan.pos))
    /\ [][(pcV = "scan" /\ pcV' # "scan") =>
            (pcV' = "summarize" /\ raised' = raised)]_vars

(***************************************************************************)
(* Further claims on the keyframe gate, checked under SpecCamera           *)
(***************************************************************************)
\* C32: the gate's reference frame is replaced by the current frame exactly
\* when that frame is reported as a keyframe; a frame that is not a keyframe
\* leaves the reference frame, the keyframe counter and the last-keyframe
\* time unchanged, so every frame is compared against the last keyframe and
\* not against the previous frame.
C32_ReferenceIsLastKeyframe ==
    /\ [][GateEvaluates =>
            /\ IF ret'.val.is_keyframe
               THEN /\ previous_frame' = ret'.val.frame
                    /\ keyframe_count' = keyframe_count + 1
                    /\ last_keyframe_time' = now
               ELSE UNCHANGED <<previous_frame, keyframe_count,
                                last_keyframe_time>>
            /\ (previous_frame # None) =>
                   ret'.val.similarity = ssim(ret'.val.frame, previous_frame)]_vars
    /\ [][(~GateEvaluates) =>
            UNCHANGED <<previous_frame, keyframe_count, last_keyframe_time>>]_vars

\* A frame that differs from the reference, but by too little, has been
\* evaluated some time after the last keyframe: the reference stays
C32_Witness ==
    /\ ret.op = "get_frame_with_keyframe_detection"
    /\ ret.val # None
    /\ ~ret.val.is_keyframe
    /\ ret.val.frame # previous_frame
    /\ keyframe_count >= 1
    /\ frame_count > keyframe_count
    /\ last_keyframe_time < now

(***************************************************************************)
(* Claims on the counters of the audio pipeline, checked under SpecAudio   *)
(***************************************************************************)
\* The poll that ends in the primed state passed voice-activity detection
\* and the speaker was classified as non-user
NonUserSpeech ==
    /\ \E i \in 1..Len(stages') :
           stages'[i].stage = "voice_activity" /\ stages'[i].result
    /\ \E i \in 1..Len(stages') :
           stages'[i].stage = "speaker_identity" /\ ~stages'[i].result

\* C33: the non-user speech counter is incremented by exactly one for each
\* audio chunk that passes voice-activity detection and is classified as
\* non-user, and is left unchanged for chunks with no speech and for chunks
\* classified as the user.
C33_NonUserCounted ==
    [][(ret'.op = "process_audio_stream") =>
          non_user_speech_count' =
              non_user_speech_count + (IF NonUserSpeech THEN 1 ELSE 0)]_vars

(***************************************************************************)
(* SpecTick: the two handlers the loops of run() call on each tick,        *)
(* process_camera_frame and process_audio_stream of MultimodalAssistant,   *)
(* each run to its end, in any order, with captures that may fail.         *)
(***************************************************************************)
\* What is heard on a tick: a question or a statement, by the user or not
TickTranscripts == {<<"O", "k", "?">>, <<"D", "o", "n", "e">>}
TickSimilarities == {0, 100}

\* MultimodalAssistant.process_audio_stream: the audio pipeline, then for a
\* question the question event, the context, the answer and its event
AssistantProcessAudioStream ==
    /\ speech_count < MaxChunks
    /\ non_user_speech_count < MaxChunks
    /\ \E read \in BOOLEAN, has_speech \in BOOLEAN, vad_raises \in {FALSE},
          similarity \in TickSimilarities, text \in TickTranscripts,
          confidence \in Confidences, answer \in AnswerTexts :
           LET heard == [captured |-> is_recording /\ read,
                         has_speech |-> has_speech, vad_raises |-> vad_raises,
                         similarity |-> similarity, text |-> text,
                         confidence |-> confidence]
               result == process_audio_stream(heard)
               new == IF result.val = None THEN <<>>
                      ELSE <<QuestionChunk(result.val),
                             AnswerChunk([text |-> answer,
                                          question |-> result.val.text])>>
           IN  /\ new # <<>> => Len(log) < MAX_MEMORY_CHUNKS
               /\ stages' = result.stages
               /\ speech_count' = speech_count + result.speech
               /\ non_user_speech_count' = non_user_speech_count + result.non_user
               /\ memory_chunks' = AppendAll(memory_chunks, new)
               /\ log' = log \o new
               /\ total_interactions' =
                      total_interactions + (IF result.val = None THEN 0 ELSE 1)
               /\ ret' = [op |-> "MultimodalAssistant.process_audio_stream",
                          val |-> result.val # None,
                          captured |-> heard.captured]
    /\ UNCHANGED <<is_recording, user_voiceprint, speaker_threshold, vad>>
    /\ UNCHANGED <<summaries, last_summary_time, session_start_time, now, file,
                   hash_seed, since_reset>>
    /\ UNCHANGED <<runVars, camVars, ocrVars>>

InitTick == Init

NextTick ==
    \/ AudioStart
    \/ LoadUserVoiceprint
    \/ ProcessCameraFrame
    \/ AssistantProcessAudioStream

SpecTick == InitTick /\ [][NextTick]_vars

\* The step is a visual tick whose camera read failed
CameraReadFailed ==
    /\ ret'.op = "process_camera_frame"
    /\ ret'.val.frame = None

\* The step is an audio tick whose audio read failed
AudioReadFailed ==
    /\ ret'.op = "MultimodalAssistant.process_audio_stream"
    /\ ~ret'.captured

C35_ContextHoldsQuestion ==
    [](pcA = "llm" =>
          \E i \in 1..Len(context.recent_events) :
              /\ context.recent_events[i].type = "question"
              /\ context.recent_events[i].content.text = question.text)

(***************************************************************************)
(* Further claims on summarization, checked under Spec                     *)
(***************************************************************************)
\* Buffered events of one type stamped before time t, and from t on
BufferedBefore(chunk_type, t) ==
    Cardinality({i \in 1..Len(memory_chunks) :
                    /\ memory_chunks[i].chunk_type = chunk_type
                    /\ memory_chunks[i].timestamp < t})

BufferedSince(chunk_type, t) ==
    Cardinality({i \in 1..Len(memory_chunks) :
                    /\ memory_chunks[i].chunk_type = chunk_type
                    /\ memory_chunks[i].timestamp >= t})

\* C36: a summary's statistics are not restricted to its own time window: an
\* event that is still in the buffer is counted by every summary created
\* while it remains buffered, including summaries whose window start is
\* later than the event's timestamp.
C36_StatisticsIgnoreWindow ==
    SummaryReturned =>
        LET start == ret.val.timeframe.start
            Counted(chunk_type) ==
                BufferedBefore(chunk_type, start) + BufferedSince(chunk_type, start)
        IN  /\ ret.val.statistics.questions_asked = Counted("question")
            /\ ret.val.statistics.keyframes_captured = Counted("keyframe")
            /\ ret.val.statistics.ocr_events = Counted("ocr")

\* A second summary whose window starts after a question that the first
\* summary already counted, and counts it again
C36_Witness ==
    /\ SummaryReturned
    /\ Len(summaries) >= 2
    /\ BufferedBefore("question", ret.val.timeframe.start) >= 1
    /\ summaries[Len(summaries) - 1].content.statistics.questions_asked >= 1
    /\ ret.val.statistics.questions_asked >= 1

\* C37: creating a summary appends only to the summaries list: it leaves
\* the bounded event buffer (contents, order and length) and
\* total_interactions unchanged, so summaries never consume buffer capacity
\* or evict an event.
C37_SummaryLeavesBuffer ==
    [][(ret'.op = "create_summary") =>
          /\ memory_chunks' = memory_chunks
          /\ total_interactions' = total_interactions
          /\ \/ summaries' = summaries
             \/ /\ Len(summaries') = Len(summaries) + 1
                /\ SubSeq(summaries', 1, Len(summaries)) = summaries
                /\ summaries'[Len(summaries')].chunk_type = "summary"]_vars

\* A summary created on a full buffer from which nothing was ever evicted
C37_Witness ==
    /\ SummaryReturned
    /\ Len(summaries) >= 1
    /\ Len(memory_chunks) = MAX_MEMORY_CHUNKS
    /\ log = memory_chunks

(***************************************************************************)
(* Further claims on the counters of the audio pipeline, checked under     *)
(* SpecAudio                                                               *)
(***************************************************************************)
\* get_stats: user_speech_filtered
user_speech_filtered == speech_count - non_user_speech_count

\* C38: in every reachable state of the audio pipeline the non-user speech
\* counter does not exceed the detected-speech counter, so the reported
\* user_speech_filtered is never negative, whichever voice-activity path
\* (primary detector, mock, or energy fallback) produced the positive
\* result.
C38_FilteredNeverNegative ==
    /\ non_user_speech_count <= speech_count
    /\ user_speech_filtered >= 0

====
